---------------------------- MODULE Spec2Model ----------------------------
(***************************************************************************)
(* A model of the SBText compiler (lexer -> parser -> import resolver ->   *)
(* semantic validator -> code generator -> archive writer).                *)
(*                                                                         *)
(* Conventions                                                             *)
(*   - A Python str is a sequence of one-character strings, so that        *)
(*     str.lower(), comparison and sorting are computed, not assumed.      *)
(*   - An ID such as "block_7" is the pair <<"block", 7>>: the prefix and  *)
(*     the counter value that _new_id formats into it.  A fixed JSON key   *)
(*     such as "VALUE" is the pair <<"VALUE", 0>>, so that the keys of one *)
(*     inputs object are all of one shape.  JSON null is Null.             *)
(*   - A JSON object is a function; a Python list is a sequence.           *)
(*   - A raised exception is an error record carried in the state that is  *)
(*     threaded through the operators; once set nothing else is changed.   *)
(***************************************************************************)
EXTENDS Integers, Sequences, FiniteSets, TLC

VARIABLES
    \* ---- code generator (_ProjectBuilder) ----
    project,        \* the Project AST handed to generate_project_json
    disk,           \* the costume files: location -> [ext, data], absent when missing
    scale_svgs,     \* the scale_svgs flag
    sprite_layer,   \* sprite_layer of build()
    cg_pc,          \* position inside _ProjectBuilder.build
    id_counter,     \* self._id_counter
    broadcast_ids,  \* self.broadcast_ids : message -> broadcast ID
    minted,         \* every ID returned by _new_id, in order
    ordered,        \* ordered_targets of build()
    targets_json,   \* targets_json of build()
    assets,         \* self.assets
    cg_error,       \* the exception build() raised, or NoError
    \* ---- semantic validator (analyze) ----
    sem_project,    \* the Project handed to analyze
    sem_pc,         \* "start" | "done"
    sem_result,     \* the exception analyze raised, or NoError
    \* ---- compile_file ----
    cf_input,       \* the arguments of compile_file and the output path's state before the call
    cf_pc,          \* which step of compile_file runs next
    cf_project,     \* the Project in flight
    cf_output,      \* state of the output path
    cf_error,       \* the exception that left compile_file, or NoError
    cf_trace,       \* the steps that returned, in order
    \* ---- import resolver (resolve_project_from_path) ----
    fs,             \* the source files: path -> text
    ir_entry,       \* entry_path of resolve_project_from_path
    ir_pc,          \* "start" | "run" | "done" | "raised"
    ir_frames,      \* the active _resolve_file calls, innermost last
    ir_stack,       \* the `stack` list
    ir_cache,       \* the `cache` dict
    ir_result,      \* what resolve_project_from_path returned or raised
    ir_reads,       \* the paths read with read_text, in order
    \* ---- lexer and parser on their own (Lexer.tokenize, Parser) ----
    ps_source,      \* the source text handed to Lexer, <<>> when the run starts from tokens
    ps_tokens,      \* the token list: the lexer's output, or the tokens handed to the parser
    ps_pc,          \* "lex" | "parse" | "expr" | "done" | "raised"
    ps_result,      \* what the parser returned, or the exception raised
    \* ---- the same call made a second time ----
    first_run       \* what the first call returned or raised, <<>> until the second call is made

cgVars  == <<project, disk, scale_svgs, sprite_layer, cg_pc, id_counter, broadcast_ids, minted, ordered, targets_json, assets, cg_error>>
semVars == <<sem_project, sem_pc, sem_result>>
cfVars  == <<cf_input, cf_pc, cf_project, cf_output, cf_error, cf_trace>>
irVars  == <<fs, ir_entry, ir_pc, ir_frames, ir_stack, ir_cache, ir_result, ir_reads>>
psVars  == <<ps_source, ps_tokens, ps_pc, ps_result>>
vars    == <<cgVars, semVars, cfVars, irVars, psVars, first_run>>

\* An AST node of parser.py before it is placed on a line: `type` is the class name
\* (class Node, line and column)
Node(type) == [type |-> type, line |-> 0, column |-> 1]

-----------------------------------------------------------------------------
(* Strings *)

UpperLetters == <<"A","B","C","D","E","F","G","H","I","J","K","L","M",
                  "N","O","P","Q","R","S","T","U","V","W","X","Y","Z">>
LowerLetters == <<"a","b","c","d","e","f","g","h","i","j","k","l","m",
                  "n","o","p","q","r","s","t","u","v","w","x","y","z">>
Digits       == <<"0","1","2","3","4","5","6","7","8","9">>

\* The printable ASCII characters in code point order, starting at 32
\* (code point 96 is spelled out: the grave accent cannot be written in a string).
Ascii == <<" ","!","\"","#","$","%","&","'","(",")","*","+",",","-",".","/">>
         \o Digits \o <<":",";","<","=",">","?","@">> \o UpperLetters
         \o <<"[","\\","]","^","_","grave">> \o LowerLetters \o <<"{","|","}","~">>

IndexIn(seq, c) == CHOOSE i \in 1..Len(seq) : seq[i] = c
InSeq(seq, c)   == \E i \in 1..Len(seq) : seq[i] = c

\* ord(c); the control characters the lexer knows sit below the printable range.
CodePoint(c) ==
    IF InSeq(Ascii, c) THEN 31 + IndexIn(Ascii, c)
    ELSE IF c = "\t" THEN 9 ELSE IF c = "\n" THEN 10 ELSE IF c = "\r" THEN 13 ELSE 0

LowerChar(c) == IF InSeq(UpperLetters, c) THEN LowerLetters[IndexIn(UpperLetters, c)] ELSE c

\* str.lower()
Lower(s) == [i \in 1..Len(s) |-> LowerChar(s[i])]

\* a < b for Python strings: code point order, a proper prefix sorts first.
StrLess(a, b) ==
    \/ /\ Len(a) < Len(b)
       /\ \A i \in 1..Len(a) : a[i] = b[i]
    \/ \E k \in 1..Len(a) :
          /\ k <= Len(b)
          /\ \A i \in 1..(k - 1) : a[i] = b[i]
          /\ CodePoint(a[k]) < CodePoint(b[k])

\* sorted(set of str)
RECURSIVE SortedStrings(_)
SortedStrings(set) ==
    IF set = {} THEN <<>>
    ELSE LET least == CHOOSE m \in set : \A o \in set \ {m} : StrLess(m, o)
         IN  <<least>> \o SortedStrings(set \ {least})

\* str(n) for a natural number
RECURSIVE DecimalString(_)
DecimalString(n) ==
    IF n < 10 THEN <<Digits[n + 1]>>
    ELSE DecimalString(n \div 10) \o <<Digits[(n % 10) + 1]>>

Range(f) == {f[i] : i \in DOMAIN f}

\* the characters of a string written as a literal of this module
Str(s) == [i \in 1..Len(s) |-> SubSeq(s, i, i)]

RECURSIVE Text(_)
\* "".join(chars) as a string of this module
Text(chars) == IF chars = <<>> THEN "" ELSE Head(chars) \o Text(Tail(chars))

\* the largest index of character c in s, 0 when there is none (str.rfind, 1-based)
LastIndexOf(s, c) ==
    IF InSeq(s, c) THEN CHOOSE i \in 1..Len(s) : s[i] = c /\ \A j \in (i + 1)..Len(s) : s[j] # c ELSE 0

-----------------------------------------------------------------------------
(* Errors, IDs and JSON values *)

NoError == [kind |-> "none", what |-> "", line |-> 0, ref |-> 0]
Err(kind, what, line, ref) == [kind |-> kind, what |-> what, line |-> line, ref |-> ref]

Null == <<"null", 0>>
\* None where a str is expected (EventScript.message): no character sequence equals it.
NoneStr == <<"None">>
Slot(name) == <<name, 0>>
EmptyMap == <<>>

NoLiteral == [kind |-> 0, text |-> <<>>]
\* [1, <literal shadow>]
LiteralInput(lit) == [mode |-> 1, ref |-> Null, lit |-> lit]
\* [1, <id>] (a shadow block) and [2, <id>] (a reporter or a substack)
BlockInput(mode, id) == [mode |-> mode, ref |-> id, lit |-> NoLiteral]

\* json.dumps of a list: an encoding that is equal exactly when the lists are.
JsonDumps(list) == [json |-> "list", items |-> list]

-----------------------------------------------------------------------------
(* The builder's state while one target is emitted: the counter, the       *)
(* broadcast map, the IDs minted so far, the target's blocks with the      *)
(* order in which their keys were written, and the pending exception.      *)

\* _ProjectBuilder._new_id : the faulty variant that forgets to advance the counter
NewIdStuck(b, prefix) ==
    IF b.err # NoError THEN [b |-> b, id |-> Null]
    ELSE [b  |-> [b EXCEPT !.minted = Append(@, <<prefix, b.ctr>>)],
          id |-> <<prefix, b.ctr>>]

NewId(b, prefix) ==
    IF b.err # NoError THEN [b |-> b, id |-> Null]
    ELSE [b  |-> [b EXCEPT !.ctr = @ + 1, !.minted = Append(@, <<prefix, b.ctr + 1>>)],
          id |-> <<prefix, b.ctr + 1>>]

NewBlockId(b) == NewId(b, "block")

Raise(b, e) == IF b.err # NoError THEN b ELSE [b EXCEPT !.err = e]

\* blocks[id] = block
PutBlock(b, id, block) ==
    IF b.err # NoError THEN b
    ELSE [b EXCEPT !.blocks = (id :> block) @@ @, !.order = Append(@, id)]

\* blocks[id]["inputs"][slot] = input
SetInput(b, id, slot, input) ==
    IF b.err # NoError THEN b
    ELSE [b EXCEPT !.blocks[id].inputs = (slot :> input) @@ @]

\* blocks[id]["next"] = next
SetNext(b, id, next) ==
    IF b.err # NoError THEN b
    ELSE [b EXCEPT !.blocks[id].next = next]

\* The record every non-top-level block literal of the generator spells out.
Block(opcode, parent, inputs, fields, shadow) ==
    [opcode |-> opcode, next |-> Null, parent |-> parent, inputs |-> inputs,
     fields |-> fields, shadow |-> shadow, topLevel |-> FALSE]

\* The record of a hat or definition block.
TopBlock(opcode, inputs, fields, x, y) ==
    [opcode |-> opcode, next |-> Null, parent |-> Null, inputs |-> inputs,
     fields |-> fields, shadow |-> FALSE, topLevel |-> TRUE, x |-> x, y |-> y]

\* _ProjectBuilder._broadcast_id : the faulty variant that never looks the message up
BroadcastIdFresh(b, message) ==
    IF b.err # NoError THEN [b |-> b, id |-> Null]
    ELSE LET n == [b |-> [b EXCEPT !.ctr = @ + 1, !.minted = Append(@, <<"broadcast", b.ctr + 1>>)],
                   id |-> <<"broadcast", b.ctr + 1>>]
         IN  [b |-> [n.b EXCEPT !.bids = (message :> n.id) @@ @], id |-> n.id]

RECURSIVE BuilderCall(_, _)

\* _ProjectBuilder._broadcast_id
BroadcastId(b, message) ==
    IF b.err # NoError THEN [b |-> b, id |-> Null]
    ELSE IF message \in DOMAIN b.bids THEN [b |-> b, id |-> b.bids[message]]
    ELSE LET n == NewId(b, "broadcast")
         IN  [b |-> [n.b EXCEPT !.bids = (message :> n.id) @@ @], id |-> n.id]

\* _ProjectBuilder._lookup_var_id
LookupVarId(b, variables_map, var_name) ==
    IF Lower(var_name) \in DOMAIN variables_map
    THEN [b |-> b, id |-> variables_map[Lower(var_name)]]
    ELSE [b |-> Raise(b, Err("CodegenError", "variable not declared", 0, 0)), id |-> Null]

\* _ProjectBuilder._lookup_list_id
LookupListId(b, lists_map, list_name) ==
    IF Lower(list_name) \in DOMAIN lists_map
    THEN [b |-> b, id |-> lists_map[Lower(list_name)]]
    ELSE [b |-> Raise(b, Err("CodegenError", "list not declared", 0, 0)), id |-> Null]

\* _ProjectBuilder._literal_input ; None is NoLiteral
LiteralOf(expr) ==
    IF expr.type = "NumberExpr" THEN [kind |-> 4, text |-> DecimalString(expr.value)]
    ELSE IF expr.type = "StringExpr" THEN [kind |-> 10, text |-> expr.value]
    ELSE NoLiteral

\* _ProjectBuilder._default_shadow
DefaultShadow(kind) ==
    IF kind = "number" THEN [kind |-> 4, text |-> <<"0">>] ELSE [kind |-> 10, text |-> <<>>]

BuiltinOpcode(kind) ==
    CASE kind = "answer"  -> "sensing_answer"
      [] kind = "mouse_x" -> "sensing_mousex"
      [] kind = "mouse_y" -> "sensing_mousey"
      [] kind = "timer"   -> "sensing_timer"
      [] OTHER            -> "none"

BinaryOpcode(op) ==
    CASE op = "+"   -> "operator_add"
      [] op = "-"   -> "operator_subtract"
      [] op = "*"   -> "operator_multiply"
      [] op = "/"   -> "operator_divide"
      [] op = "%"   -> "operator_mod"
      [] op = "<"   -> "operator_lt"
      [] op = ">"   -> "operator_gt"
      [] op = "="   -> "operator_equals"
      [] op = "=="  -> "operator_equals"
      [] op = "and" -> "operator_and"
      [] op = "or"  -> "operator_or"
      [] OTHER      -> "none"

\* input_map of _emit_binary_expr: <<left key, right key, default kind>>
BinaryInputMap(opcode) ==
    IF opcode \in {"operator_add", "operator_subtract", "operator_multiply",
                   "operator_divide", "operator_mod"}
    THEN <<"NUM1", "NUM2", "number">>
    ELSE IF opcode \in {"operator_lt", "operator_gt"} THEN <<"OPERAND1", "OPERAND2", "number">>
    ELSE IF opcode = "operator_equals" THEN <<"OPERAND1", "OPERAND2", "string">>
    ELSE <<"OPERAND1", "OPERAND2", "boolean">>

\* AST nodes the generator synthesises while desugaring
BinaryExpr(line, column, op, left, right) ==
    [type |-> "BinaryExpr", line |-> line, column |-> column, op |-> op, left |-> left, right |-> right]
UnaryExpr(line, column, op, operand) ==
    [type |-> "UnaryExpr", line |-> line, column |-> column, op |-> op, operand |-> operand]

-----------------------------------------------------------------------------
(* Reporter lowering.  env is the lowering context of one target:          *)
(* [vmap, lmap, sigs, scope] = variables_map, lists_map, signatures and    *)
(* param_scope.                                                            *)


\* _ProjectBuilder._expr_input : the faulty variant that hangs the reporter on nothing
ExprInputOrphan(b, expr, parent_id, env, default_kind) ==
    LET literal == LiteralOf(expr) IN
    IF literal # NoLiteral THEN [b |-> b, input |-> LiteralInput(literal)]
    ELSE LET r == BuilderCall("EmitExprReporter", <<b, expr, Null, env>>) IN
         IF r.id = Null THEN [b |-> r.b, input |-> LiteralInput(DefaultShadow(default_kind))]
         ELSE [b |-> r.b, input |-> BlockInput(2, r.id)]

ExprInput(b, expr, parent_id, env, default_kind) ==
    LET literal == LiteralOf(expr) IN
    IF literal # NoLiteral THEN [b |-> b, input |-> LiteralInput(literal)]
    ELSE LET r == BuilderCall("EmitExprReporter", <<b, expr, parent_id, env>>) IN
         IF r.id = Null THEN [b |-> r.b, input |-> LiteralInput(DefaultShadow(default_kind))]
         ELSE [b |-> r.b, input |-> BlockInput(2, r.id)]

EmitExprReporter(b, expr, parent_id, env) ==
    CASE expr.type \in {"NumberExpr", "StringExpr"} -> [b |-> b, id |-> Null]
      [] expr.type = "BuiltinReporterExpr" ->
            IF BuiltinOpcode(expr.kind) = "none"
            THEN [b |-> Raise(b, Err("CodegenError", "unsupported built-in reporter", 0, 0)), id |-> Null]
            ELSE LET n == NewBlockId(b) IN
                 [b  |-> PutBlock(n.b, n.id, Block(BuiltinOpcode(expr.kind), parent_id, EmptyMap, EmptyMap, FALSE)),
                  id |-> n.id]
      [] expr.type = "VarExpr" ->
            IF Lower(expr.name) \in {Lower(name) : name \in env.scope}
            THEN LET n == NewBlockId(b) IN
                 [b  |-> PutBlock(n.b, n.id,
                            Block("argument_reporter_string_number", parent_id, EmptyMap,
                                  [VALUE |-> <<expr.name, Null>>], FALSE)),
                  id |-> n.id]
            ELSE LET v == BuilderCall("LookupVarId", <<b, env.vmap, expr.name>>)
                     n == NewBlockId(v.b)
                 IN  [b  |-> PutBlock(n.b, n.id,
                                Block("data_variable", parent_id, EmptyMap,
                                      [VARIABLE |-> <<expr.name, v.id>>], FALSE)),
                      id |-> n.id]
      [] expr.type = "PickRandomExpr" ->
            LET n  == NewBlockId(b)
                b1 == PutBlock(n.b, n.id, Block("operator_random", parent_id, EmptyMap, EmptyMap, FALSE))
                f  == BuilderCall("ExprInput", <<b1, expr.start, n.id, env, "number">>)
                b2 == SetInput(f.b, n.id, Slot("FROM"), f.input)
                t  == BuilderCall("ExprInput", <<b2, expr.end, n.id, env, "number">>)
            IN  [b |-> SetInput(t.b, n.id, Slot("TO"), t.input), id |-> n.id]
      [] expr.type = "ListItemExpr" ->
            LET n  == NewBlockId(b)
                l  == BuilderCall("LookupListId", <<n.b, env.lmap, expr.list_name>>)
                b1 == PutBlock(l.b, n.id,
                         Block("data_itemoflist", parent_id, EmptyMap, [LIST |-> <<expr.list_name, l.id>>], FALSE))
                i  == BuilderCall("ExprInput", <<b1, expr.index, n.id, env, "number">>)
            IN  [b |-> SetInput(i.b, n.id, Slot("INDEX"), i.input), id |-> n.id]
      [] expr.type = "ListLengthExpr" ->
            LET n == NewBlockId(b)
                l == BuilderCall("LookupListId", <<n.b, env.lmap, expr.list_name>>)
            IN  [b  |-> PutBlock(l.b, n.id,
                           Block("data_lengthoflist", parent_id, EmptyMap, [LIST |-> <<expr.list_name, l.id>>], FALSE)),
                 id |-> n.id]
      [] expr.type = "ListContainsExpr" ->
            LET n  == NewBlockId(b)
                l  == BuilderCall("LookupListId", <<n.b, env.lmap, expr.list_name>>)
                b1 == PutBlock(l.b, n.id,
                         Block("data_listcontainsitem", parent_id, EmptyMap, [LIST |-> <<expr.list_name, l.id>>], FALSE))
                i  == BuilderCall("ExprInput", <<b1, expr.item, n.id, env, "string">>)
            IN  [b |-> SetInput(i.b, n.id, Slot("ITEM"), i.input), id |-> n.id]
      [] expr.type = "KeyPressedExpr" ->
            LET n  == NewBlockId(b)
                m  == NewBlockId(n.b)
                b1 == PutBlock(m.b, n.id,
                         Block("sensing_keypressed", parent_id,
                               Slot("KEY_OPTION") :> BlockInput(1, m.id), EmptyMap, FALSE))
                key_literal == LiteralOf(expr.key)
                key_value   == IF key_literal.kind = 10 THEN key_literal.text
                               ELSE <<"s","p","a","c","e">>
            IN  [b  |-> PutBlock(b1, m.id,
                           Block("sensing_keyoptions", n.id, EmptyMap, [KEY_OPTION |-> <<key_value, Null>>], TRUE)),
                 id |-> n.id]
      [] expr.type = "UnaryExpr" ->
            IF expr.op = "-"
            THEN LET n  == NewBlockId(b)
                     b1 == PutBlock(n.b, n.id, Block("operator_subtract", parent_id, EmptyMap, EmptyMap, FALSE))
                     b2 == SetInput(b1, n.id, Slot("NUM1"), LiteralInput([kind |-> 4, text |-> <<"0">>]))
                     o  == BuilderCall("ExprInput", <<b2, expr.operand, n.id, env, "number">>)
                 IN  [b |-> SetInput(o.b, n.id, Slot("NUM2"), o.input), id |-> n.id]
            ELSE IF expr.op = "not"
            THEN LET n == NewBlockId(b)
                     o == BuilderCall("ExprInput", <<n.b, expr.operand, n.id, env, "boolean">>)
                 IN  [b  |-> PutBlock(o.b, n.id,
                                Block("operator_not", parent_id, Slot("OPERAND") :> o.input, EmptyMap, FALSE)),
                      id |-> n.id]
            ELSE [b |-> Raise(b, Err("CodegenError", "unsupported unary operator", 0, 0)), id |-> Null]
      [] expr.type = "BinaryExpr" -> BuilderCall("EmitBinaryExpr", <<b, expr, parent_id, env>>)
      [] OTHER -> [b |-> Raise(b, Err("CodegenError", "unsupported expression type", 0, 0)), id |-> Null]

\* _emit_binary_expr : the faulty variant that emits the operands of `<=`, `>=` and `!=`
\* under the first comparison only
EmitBinaryExprOnce(b, expr, parent_id, env) ==
    IF expr.op \in {"<=", ">="}
    THEN BuilderCall("EmitBinaryExpr", <<b, BinaryExpr(expr.line, expr.column, IF expr.op = "<=" THEN "<" ELSE ">",
                                                       expr.left, expr.right), parent_id, env>>)
    ELSE IF expr.op = "!="
    THEN BuilderCall("EmitBinaryExpr", <<b, BinaryExpr(expr.line, expr.column, "=", expr.left, expr.right),
                                         parent_id, env>>)
    ELSE IF BinaryOpcode(expr.op) = "none"
    THEN [b |-> Raise(b, Err("CodegenError", "unsupported binary operator", 0, 0)), id |-> Null]
    ELSE LET opcode == BinaryOpcode(expr.op)
             keys   == BinaryInputMap(opcode)
             n  == NewBlockId(b)
             b1 == PutBlock(n.b, n.id, Block(opcode, parent_id, EmptyMap, EmptyMap, FALSE))
             l  == BuilderCall("ExprInput", <<b1, expr.left, n.id, env, keys[3]>>)
             b2 == SetInput(l.b, n.id, Slot(keys[1]), l.input)
             r  == BuilderCall("ExprInput", <<b2, expr.right, n.id, env, keys[3]>>)
         IN  [b |-> SetInput(r.b, n.id, Slot(keys[2]), r.input), id |-> n.id]

\* _ProjectBuilder._emit_binary_expr
EmitBinaryExpr(b, expr, parent_id, env) ==
    IF expr.op \in {"<=", ">="}
    THEN LET op_first  == IF expr.op = "<=" THEN "<" ELSE ">"
             first     == BinaryExpr(expr.line, expr.column, op_first, expr.left, expr.right)
             second    == BinaryExpr(expr.line, expr.column, "=", expr.left, expr.right)
             rewritten == BinaryExpr(expr.line, expr.column, "or", first, second)
         IN  BuilderCall("EmitBinaryExpr", <<b, rewritten, parent_id, env>>)
    ELSE IF expr.op = "!="
    THEN LET equals_expr == BinaryExpr(expr.line, expr.column, "=", expr.left, expr.right)
             not_expr    == UnaryExpr(expr.line, expr.column, "not", equals_expr)
         IN  BuilderCall("EmitExprReporter", <<b, not_expr, parent_id, env>>)
    ELSE IF BinaryOpcode(expr.op) = "none"
    THEN [b |-> Raise(b, Err("CodegenError", "unsupported binary operator", 0, 0)), id |-> Null]
    ELSE LET opcode == BinaryOpcode(expr.op)
             keys   == BinaryInputMap(opcode)
             n  == NewBlockId(b)
             b1 == PutBlock(n.b, n.id, Block(opcode, parent_id, EmptyMap, EmptyMap, FALSE))
             l  == BuilderCall("ExprInput", <<b1, expr.left, n.id, env, keys[3]>>)
             b2 == SetInput(l.b, n.id, Slot(keys[1]), l.input)
             r  == BuilderCall("ExprInput", <<b2, expr.right, n.id, env, keys[3]>>)
         IN  [b |-> SetInput(r.b, n.id, Slot(keys[2]), r.input), id |-> n.id]

-----------------------------------------------------------------------------
(* Statement lowering *)


\* _ProjectBuilder._emit_broadcast_stmt
EmitBroadcastStmt(b, stmt, parent_id) ==
    LET n  == NewBlockId(b)
        m  == NewBlockId(n.b)
        bc == BuilderCall("BroadcastId", <<m.b, stmt.message>>)
        b1 == PutBlock(bc.b, n.id,
                 Block("event_broadcast", parent_id, Slot("BROADCAST_INPUT") :> BlockInput(1, m.id),
                       EmptyMap, FALSE))
    IN  [b  |-> PutBlock(b1, m.id,
                   Block("event_broadcast_menu", n.id, EmptyMap,
                         [BROADCAST_OPTION |-> <<stmt.message, bc.id>>], TRUE)),
         id |-> n.id]

\* _emit_set_stmt and _emit_change_stmt
EmitVarStmt(b, opcode, var_name, value, parent_id, env) ==
    LET v == BuilderCall("LookupVarId", <<b, env.vmap, var_name>>)
        n == NewBlockId(v.b)
        i == BuilderCall("ExprInput", <<n.b, value, n.id, env, "number">>)
    IN  [b  |-> PutBlock(i.b, n.id,
                   Block(opcode, parent_id, Slot("VALUE") :> i.input,
                         [VARIABLE |-> <<var_name, v.id>>], FALSE)),
         id |-> n.id]

\* _ProjectBuilder._emit_single_input_stmt (and _emit_move_stmt, _emit_say_stmt,
\* _emit_think_stmt, which spell out the same block)
EmitSingleInputStmt(b, opcode, input_name, value, parent_id, env, default_kind) ==
    LET n == NewBlockId(b)
        i == BuilderCall("ExprInput", <<n.b, value, n.id, env, default_kind>>)
    IN  [b  |-> PutBlock(i.b, n.id, Block(opcode, parent_id, Slot(input_name) :> i.input, EmptyMap, FALSE)),
         id |-> n.id]

\* _ProjectBuilder._emit_go_to_xy_stmt
EmitGoToXYStmt(b, stmt, parent_id, env) ==
    LET n  == NewBlockId(b)
        b1 == PutBlock(n.b, n.id, Block("motion_gotoxy", parent_id, EmptyMap, EmptyMap, FALSE))
        x  == BuilderCall("ExprInput", <<b1, stmt.x, n.id, env, "number">>)
        b2 == SetInput(x.b, n.id, Slot("X"), x.input)
        y  == BuilderCall("ExprInput", <<b2, stmt.y, n.id, env, "number">>)
    IN  [b |-> SetInput(y.b, n.id, Slot("Y"), y.input), id |-> n.id]

\* _ProjectBuilder._emit_no_input_stmt
EmitNoInputStmt(b, opcode, parent_id) ==
    LET n == NewBlockId(b)
    IN  [b |-> PutBlock(n.b, n.id, Block(opcode, parent_id, EmptyMap, EmptyMap, FALSE)), id |-> n.id]

\* _ProjectBuilder._emit_stop_stmt
EmitStopStmt(b, stmt, parent_id) ==
    LET n == NewBlockId(b)
        option_literal == LiteralOf(stmt.option)
        stop_option    == IF option_literal.kind = 10 THEN option_literal.text ELSE <<"a","l","l">>
    IN  [b  |-> PutBlock(n.b, n.id,
                   Block("control_stop", parent_id, EmptyMap, [STOP_OPTION |-> <<stop_option, Null>>], FALSE)
                   @@ [mutation |-> [tagName |-> "mutation", children |-> <<>>, hasnext |-> "false"]]),
         id |-> n.id]

\* _emit_add_to_list_stmt and _emit_delete_of_list_stmt: lookup, ID, input, block
EmitListInputStmt(b, opcode, input_name, list_name, value, parent_id, env, default_kind) ==
    LET l == BuilderCall("LookupListId", <<b, env.lmap, list_name>>)
        n == NewBlockId(l.b)
        i == BuilderCall("ExprInput", <<n.b, value, n.id, env, default_kind>>)
    IN  [b  |-> PutBlock(i.b, n.id,
                   Block(opcode, parent_id, Slot(input_name) :> i.input, [LIST |-> <<list_name, l.id>>], FALSE)),
         id |-> n.id]

\* _ProjectBuilder._emit_delete_all_of_list_stmt
EmitDeleteAllOfListStmt(b, stmt, parent_id, env) ==
    LET l == BuilderCall("LookupListId", <<b, env.lmap, stmt.list_name>>)
        n == NewBlockId(l.b)
    IN  [b  |-> PutBlock(n.b, n.id,
                   Block("data_deletealloflist", parent_id, EmptyMap, [LIST |-> <<stmt.list_name, l.id>>], FALSE)),
         id |-> n.id]

\* _emit_insert_at_list_stmt (ITEM then INDEX) and _emit_replace_item_of_list_stmt
\* (INDEX then ITEM): lookup, ID, block, then the two inputs in the given order
EmitListTwoInputStmt(b, opcode, list_name, name1, expr1, kind1, name2, expr2, kind2, parent_id, env) ==
    LET l  == BuilderCall("LookupListId", <<b, env.lmap, list_name>>)
        n  == NewBlockId(l.b)
        b1 == PutBlock(n.b, n.id, Block(opcode, parent_id, EmptyMap, [LIST |-> <<list_name, l.id>>], FALSE))
        i1 == BuilderCall("ExprInput", <<b1, expr1, n.id, env, kind1>>)
        b2 == SetInput(i1.b, n.id, Slot(name1), i1.input)
        i2 == BuilderCall("ExprInput", <<b2, expr2, n.id, env, kind2>>)
    IN  [b |-> SetInput(i2.b, n.id, Slot(name2), i2.input), id |-> n.id]

\* _ProjectBuilder._emit_statement_chain : the loop from statement k on, with the
\* loop's `first` and `prev`
EmitStatementChainFrom(b, statements, k, first, prev, parent_id, env) ==
    IF k > Len(statements) \/ b.err # NoError THEN [b |-> b, first |-> first, last |-> prev]
    ELSE LET stmt_parent == IF prev = Null THEN parent_id ELSE prev
             e  == BuilderCall("EmitStatement", <<b, statements[k], stmt_parent, env>>)
             b1 == IF prev # Null THEN SetNext(e.b, prev, e.id) ELSE e.b
         IN  BuilderCall("EmitStatementChainFrom", <<b1, statements, k + 1,
                                    IF first = Null THEN e.id ELSE first, e.id, parent_id, env>>)

EmitStatementChain(b, statements, parent_id, env) ==
    BuilderCall("EmitStatementChainFrom", <<b, statements, 1, Null, Null, parent_id, env>>)

\* _emit_repeat_stmt : the variant that puts the TIMES literal in a shadow block of its own
EmitRepeatStmtShadowTimes(b, stmt, parent_id, env) ==
    LET n  == NewBlockId(b)
        m  == NewBlockId(n.b)
        b0 == PutBlock(m.b, m.id, Block("math_whole_number", n.id, EmptyMap, EmptyMap, TRUE))
        b1 == PutBlock(b0, n.id, Block("control_repeat", parent_id, Slot("TIMES") :> BlockInput(1, m.id), EmptyMap, FALSE))
        c  == BuilderCall("EmitStatementChain", <<b1, stmt.body, n.id, env>>)
    IN  [b  |-> IF c.first # Null THEN SetInput(c.b, n.id, Slot("SUBSTACK"), BlockInput(2, c.first)) ELSE c.b,
         id |-> n.id]

\* _ProjectBuilder._emit_repeat_stmt
EmitRepeatStmt(b, stmt, parent_id, env) ==
    LET n  == NewBlockId(b)
        t  == BuilderCall("ExprInput", <<n.b, stmt.times, n.id, env, "number">>)
        b1 == PutBlock(t.b, n.id, Block("control_repeat", parent_id, Slot("TIMES") :> t.input, EmptyMap, FALSE))
        c  == BuilderCall("EmitStatementChain", <<b1, stmt.body, n.id, env>>)
    IN  [b  |-> IF c.first # Null THEN SetInput(c.b, n.id, Slot("SUBSTACK"), BlockInput(2, c.first)) ELSE c.b,
         id |-> n.id]

\* _ProjectBuilder._emit_forever_stmt
EmitForeverStmt(b, stmt, parent_id, env) ==
    LET n  == NewBlockId(b)
        b1 == PutBlock(n.b, n.id, Block("control_forever", parent_id, EmptyMap, EmptyMap, FALSE))
        c  == BuilderCall("EmitStatementChain", <<b1, stmt.body, n.id, env>>)
    IN  [b  |-> IF c.first # Null THEN SetInput(c.b, n.id, Slot("SUBSTACK"), BlockInput(2, c.first)) ELSE c.b,
         id |-> n.id]

\* _ProjectBuilder._emit_if_stmt
EmitIfStmt(b, stmt, parent_id, env) ==
    LET n  == NewBlockId(b)
        c  == BuilderCall("ExprInput", <<n.b, stmt.condition, n.id, env, "boolean">>)
        b1 == PutBlock(c.b, n.id, Block("control_if_else", parent_id, Slot("CONDITION") :> c.input, EmptyMap, FALSE))
        t  == BuilderCall("EmitStatementChain", <<b1, stmt.then_body, n.id, env>>)
        e  == BuilderCall("EmitStatementChain", <<t.b, stmt.else_body, n.id, env>>)
        b2 == IF t.first # Null THEN SetInput(e.b, n.id, Slot("SUBSTACK"), BlockInput(2, t.first)) ELSE e.b
    IN  [b  |-> IF e.first # Null THEN SetInput(b2, n.id, Slot("SUBSTACK2"), BlockInput(2, e.first)) ELSE b2,
         id |-> n.id]

\* the loop `for arg_id, arg_expr in zip(signature.arg_ids, stmt.args)` of _emit_call_stmt
CallInputs(b, arg_ids, args, k, inputs, block_id, env) ==
    IF k > Len(arg_ids) \/ k > Len(args) \/ b.err # NoError THEN [b |-> b, inputs |-> inputs]
    ELSE LET i == BuilderCall("ExprInput", <<b, args[k], block_id, env, "string">>)
         IN  BuilderCall("CallInputs", <<i.b, arg_ids, args, k + 1, (arg_ids[k] :> i.input) @@ inputs, block_id, env>>)

\* _emit_call_stmt : the faulty variant that spells the proccode with the call's own name
EmitCallStmtOwnName(b, stmt, parent_id, env) ==
    IF Lower(stmt.name) \notin DOMAIN env.sigs
    THEN [b |-> Raise(b, Err("CodegenError", "unknown procedure", 0, 0)), id |-> Null]
    ELSE LET signature == env.sigs[Lower(stmt.name)]
             n == NewBlockId(b)
             i == BuilderCall("CallInputs", <<n.b, signature.arg_ids, stmt.args, 1, EmptyMap, n.id, env>>)
         IN  [b  |-> PutBlock(i.b, n.id,
                        Block("procedures_call", parent_id, i.inputs, EmptyMap, FALSE)
                        @@ [mutation |-> [tagName |-> "mutation", children |-> <<>>,
                                          proccode |-> stmt.name \o SubSeq(signature.proccode, Len(signature.name) + 1,
                                                                            Len(signature.proccode)),
                                          argumentids |-> JsonDumps(signature.arg_ids),
                                          warp |-> "false"]]),
              id |-> n.id]

\* _ProjectBuilder._emit_call_stmt
EmitCallStmt(b, stmt, parent_id, env) ==
    IF Lower(stmt.name) \notin DOMAIN env.sigs
    THEN [b |-> Raise(b, Err("CodegenError", "unknown procedure", 0, 0)), id |-> Null]
    ELSE LET signature == env.sigs[Lower(stmt.name)]
             n == NewBlockId(b)
             i == BuilderCall("CallInputs", <<n.b, signature.arg_ids, stmt.args, 1, EmptyMap, n.id, env>>)
         IN  [b  |-> PutBlock(i.b, n.id,
                        Block("procedures_call", parent_id, i.inputs, EmptyMap, FALSE)
                        @@ [mutation |-> [tagName |-> "mutation", children |-> <<>>,
                                          proccode |-> signature.proccode,
                                          argumentids |-> JsonDumps(signature.arg_ids),
                                          warp |-> "false"]]),
              id |-> n.id]

\* _ProjectBuilder._emit_statement
EmitStatement(b, stmt, parent_id, env) ==
    CASE stmt.type = "BroadcastStmt" -> BuilderCall("EmitBroadcastStmt", <<b, stmt, parent_id>>)
      [] stmt.type = "SetVarStmt" -> BuilderCall("EmitVarStmt", <<b, "data_setvariableto", stmt.var_name, stmt.value, parent_id, env>>)
      [] stmt.type = "ChangeVarStmt" -> BuilderCall("EmitVarStmt", <<b, "data_changevariableby", stmt.var_name, stmt.delta, parent_id, env>>)
      [] stmt.type = "MoveStmt" -> BuilderCall("EmitSingleInputStmt", <<b, "motion_movesteps", "STEPS", stmt.steps, parent_id, env, "number">>)
      [] stmt.type = "SayStmt" -> BuilderCall("EmitSingleInputStmt", <<b, "looks_say", "MESSAGE", stmt.message, parent_id, env, "string">>)
      [] stmt.type = "ThinkStmt" -> BuilderCall("EmitSingleInputStmt", <<b, "looks_think", "MESSAGE", stmt.message, parent_id, env, "string">>)
      [] stmt.type = "TurnRightStmt" -> BuilderCall("EmitSingleInputStmt", <<b, "motion_turnright", "DEGREES", stmt.degrees, parent_id, env, "number">>)
      [] stmt.type = "TurnLeftStmt" -> BuilderCall("EmitSingleInputStmt", <<b, "motion_turnleft", "DEGREES", stmt.degrees, parent_id, env, "number">>)
      [] stmt.type = "GoToXYStmt" -> BuilderCall("EmitGoToXYStmt", <<b, stmt, parent_id, env>>)
      [] stmt.type = "ChangeXByStmt" -> BuilderCall("EmitSingleInputStmt", <<b, "motion_changexby", "DX", stmt.value, parent_id, env, "number">>)
      [] stmt.type = "SetXStmt" -> BuilderCall("EmitSingleInputStmt", <<b, "motion_setx", "X", stmt.value, parent_id, env, "number">>)
      [] stmt.type = "ChangeYByStmt" -> BuilderCall("EmitSingleInputStmt", <<b, "motion_changeyby", "DY", stmt.value, parent_id, env, "number">>)
      [] stmt.type = "SetYStmt" -> BuilderCall("EmitSingleInputStmt", <<b, "motion_sety", "Y", stmt.value, parent_id, env, "number">>)
      [] stmt.type = "PointInDirectionStmt" ->
            BuilderCall("EmitSingleInputStmt", <<b, "motion_pointindirection", "DIRECTION", stmt.direction, parent_id, env, "number">>)
      [] stmt.type = "IfOnEdgeBounceStmt" -> BuilderCall("EmitNoInputStmt", <<b, "motion_ifonedgebounce", parent_id>>)
      [] stmt.type = "ChangeSizeByStmt" -> BuilderCall("EmitSingleInputStmt", <<b, "looks_changesizeby", "CHANGE", stmt.value, parent_id, env, "number">>)
      [] stmt.type = "SetSizeToStmt" -> BuilderCall("EmitSingleInputStmt", <<b, "looks_setsizeto", "SIZE", stmt.value, parent_id, env, "number">>)
      [] stmt.type = "ShowStmt" -> BuilderCall("EmitNoInputStmt", <<b, "looks_show", parent_id>>)
      [] stmt.type = "HideStmt" -> BuilderCall("EmitNoInputStmt", <<b, "looks_hide", parent_id>>)
      [] stmt.type = "NextCostumeStmt" -> BuilderCall("EmitNoInputStmt", <<b, "looks_nextcostume", parent_id>>)
      [] stmt.type = "NextBackdropStmt" -> BuilderCall("EmitNoInputStmt", <<b, "looks_nextbackdrop", parent_id>>)
      [] stmt.type = "WaitStmt" -> BuilderCall("EmitSingleInputStmt", <<b, "control_wait", "DURATION", stmt.duration, parent_id, env, "number">>)
      [] stmt.type = "ForeverStmt" -> BuilderCall("EmitForeverStmt", <<b, stmt, parent_id, env>>)
      [] stmt.type = "StopStmt" -> BuilderCall("EmitStopStmt", <<b, stmt, parent_id>>)
      [] stmt.type = "AskStmt" -> BuilderCall("EmitSingleInputStmt", <<b, "sensing_askandwait", "QUESTION", stmt.question, parent_id, env, "string">>)
      [] stmt.type = "ResetTimerStmt" -> BuilderCall("EmitNoInputStmt", <<b, "sensing_resettimer", parent_id>>)
      [] stmt.type = "AddToListStmt" ->
            BuilderCall("EmitListInputStmt", <<b, "data_addtolist", "ITEM", stmt.list_name, stmt.item, parent_id, env, "string">>)
      [] stmt.type = "DeleteOfListStmt" ->
            BuilderCall("EmitListInputStmt", <<b, "data_deleteoflist", "INDEX", stmt.list_name, stmt.index, parent_id, env, "number">>)
      [] stmt.type = "DeleteAllOfListStmt" -> BuilderCall("EmitDeleteAllOfListStmt", <<b, stmt, parent_id, env>>)
      [] stmt.type = "InsertAtListStmt" ->
            BuilderCall("EmitListTwoInputStmt", <<b, "data_insertatlist", stmt.list_name, "ITEM", stmt.item, "string",
                                 "INDEX", stmt.index, "number", parent_id, env>>)
      [] stmt.type = "ReplaceItemOfListStmt" ->
            BuilderCall("EmitListTwoInputStmt", <<b, "data_replaceitemoflist", stmt.list_name, "INDEX", stmt.index, "number",
                                 "ITEM", stmt.item, "string", parent_id, env>>)
      [] stmt.type = "RepeatStmt" -> BuilderCall("EmitRepeatStmt", <<b, stmt, parent_id, env>>)
      [] stmt.type = "IfStmt" -> BuilderCall("EmitIfStmt", <<b, stmt, parent_id, env>>)
      [] stmt.type = "ProcedureCallStmt" -> BuilderCall("EmitCallStmt", <<b, stmt, parent_id, env>>)
      [] OTHER -> [b |-> Raise(b, Err("CodegenError", "unsupported statement type", 0, 0)), id |-> Null]

-----------------------------------------------------------------------------
(* Procedures, event scripts and targets *)

ProcPlaceholders == <<" ", "%", "s">>

RECURSIVE Proccode(_, _)
\* name + " %s" * n : f"{procedure.name} {placeholders}"
Proccode(name, n) == IF n = 0 THEN name ELSE Proccode(name, n - 1) \o ProcPlaceholders

\* arg_ids = [self._new_id("arg") for _ in procedure.params]
NewArgIds(b, n, ids) ==
    IF n = 0 THEN [b |-> b, ids |-> ids]
    ELSE LET a == NewId(b, "arg") IN BuilderCall("NewArgIds", <<a.b, n - 1, Append(ids, a.id)>>)

\* _ProjectBuilder._build_procedure_signatures
BuildProcedureSignaturesFrom(b, procedures, k, signatures) ==
    IF k > Len(procedures) THEN [b |-> b, sigs |-> signatures]
    ELSE LET procedure == procedures[k]
             a == BuilderCall("NewArgIds", <<b, Len(procedure.params), <<>>>>)
             sig == [name |-> procedure.name, params |-> procedure.params, arg_ids |-> a.ids,
                     proccode |-> Proccode(procedure.name, Len(procedure.params))]
         IN  BuilderCall("BuildProcedureSignaturesFrom", <<a.b, procedures, k + 1,
                 (Lower(procedure.name) :> sig) @@ signatures>>)

BuildProcedureSignatures(b, target) == BuilderCall("BuildProcedureSignaturesFrom", <<b, target.procedures, 1, EmptyMap>>)

\* the loop over zip(signature.params, signature.arg_ids) of _emit_procedure_definition
PrototypeInputs(b, signature, k, prototype_id, inputs) ==
    IF k > Len(signature.params) \/ k > Len(signature.arg_ids) THEN [b |-> b, inputs |-> inputs]
    ELSE LET r  == NewBlockId(b)
             b1 == PutBlock(r.b, r.id,
                      Block("argument_reporter_string_number", prototype_id, EmptyMap,
                            [VALUE |-> <<signature.params[k], Null>>], TRUE))
         IN  BuilderCall("PrototypeInputs", <<b1, signature, k + 1, prototype_id,
                             (signature.arg_ids[k] :> BlockInput(1, r.id)) @@ inputs>>)

\* _ProjectBuilder._emit_procedure_definition ; returns the new y_cursor
EmitProcedureDefinition(b, procedure, env, start_y) ==
    LET signature == env.sigs[Lower(procedure.name)]
        d  == NewBlockId(b)
        p  == NewBlockId(d.b)
        b1 == PutBlock(p.b, d.id,
                 TopBlock("procedures_definition", Slot("custom_block") :> BlockInput(1, p.id),
                          EmptyMap, 30, start_y))
        pi == BuilderCall("PrototypeInputs", <<b1, signature, 1, p.id, EmptyMap>>)
        b2 == PutBlock(pi.b, p.id,
                 Block("procedures_prototype", d.id, pi.inputs, EmptyMap, TRUE)
                 @@ [mutation |-> [tagName |-> "mutation", children |-> <<>>,
                                   proccode |-> signature.proccode,
                                   argumentids |-> JsonDumps(signature.arg_ids),
                                   argumentnames |-> JsonDumps(signature.params),
                                   argumentdefaults |-> JsonDumps([i \in 1..Len(signature.params) |-> <<>>]),
                                   warp |-> "false"]])
        c  == BuilderCall("EmitStatementChain", <<b2, procedure.body, d.id,
                                 [env EXCEPT !.scope = Range(signature.params)]>>)
    IN  IF c.first # Null
        THEN [b |-> SetNext(c.b, d.id, c.first), y |-> start_y + 120 + (IF c.last # Null THEN 20 ELSE 0)]
        ELSE [b |-> c.b, y |-> start_y + 80]

\* _ProjectBuilder._emit_event_script ; returns the new y_cursor
EmitEventScript(b, script, env, start_y) ==
    IF script.event_type \notin {"when_flag_clicked", "when_this_sprite_clicked", "when_i_receive"}
    THEN [b |-> Raise(b, Err("CodegenError", "unsupported event type", 0, 0)), y |-> start_y]
    ELSE IF script.event_type = "when_i_receive" /\ script.message = NoneStr
    THEN [b |-> Raise(b, Err("CodegenError", "missing message", 0, 0)), y |-> start_y]
    ELSE LET bc == IF script.event_type = "when_i_receive" THEN BuilderCall("BroadcastId", <<b, script.message>>)
                   ELSE [b |-> b, id |-> Null]
             opcode == CASE script.event_type = "when_flag_clicked" -> "event_whenflagclicked"
                         [] script.event_type = "when_this_sprite_clicked" -> "event_whenthisspriteclicked"
                         [] OTHER -> "event_whenbroadcastreceived"
             fields == IF script.event_type = "when_i_receive"
                       THEN [BROADCAST_OPTION |-> <<script.message, bc.id>>] ELSE EmptyMap
             h  == NewBlockId(bc.b)
             b1 == PutBlock(h.b, h.id, TopBlock(opcode, EmptyMap, fields, 320, start_y))
             c  == BuilderCall("EmitStatementChain", <<b1, script.body, h.id, [env EXCEPT !.scope = {}]>>)
         IN  IF c.first # Null
             THEN [b |-> SetNext(c.b, h.id, c.first), y |-> start_y + 120 + (IF c.last # Null THEN 20 ELSE 0)]
             ELSE [b |-> c.b, y |-> start_y + 80]

\* the loops over target.variables and target.lists of _build_target_json
DeclareNames(b, decls, k, prefix, initial, map, json) ==
    IF k > Len(decls) THEN [b |-> b, map |-> map, json |-> json]
    ELSE LET n == NewId(b, prefix)
         IN  BuilderCall("DeclareNames", <<n.b, decls, k + 1, prefix, initial,
                          (Lower(decls[k].name) :> n.id) @@ map,
                          (n.id :> <<decls[k].name, initial>>) @@ json>>)

\* the loop over target.procedures of _build_target_json
EmitProcedures(b, procedures, k, env, y_cursor) ==
    IF k > Len(procedures) \/ b.err # NoError THEN [b |-> b, y |-> y_cursor]
    ELSE LET e == BuilderCall("EmitProcedureDefinition", <<b, procedures[k], env, y_cursor>>)
         IN  BuilderCall("EmitProcedures", <<e.b, procedures, k + 1, env, e.y + 40>>)

\* the loop over target.scripts of _build_target_json
EmitScripts(b, scripts, k, env, y_cursor) ==
    IF k > Len(scripts) \/ b.err # NoError THEN [b |-> b, y |-> y_cursor]
    ELSE LET e == BuilderCall("EmitEventScript", <<b, scripts[k], env, y_cursor>>)
         IN  BuilderCall("EmitScripts", <<e.b, scripts, k + 1, env, e.y + 40>>)

-----------------------------------------------------------------------------
(* Costumes.  A file's bytes are a record: an SVG document is               *)
(* [fmt, valid, viewBox, layers, art], where layers lists the transforms    *)
(* of the <g> wrappers around the original children, outermost last; a PNG  *)
(* is [fmt, art].  A costume path is a str; pathlib.Path of it is           *)
(* [abs, dir, stem, suffix] and a location on disk is <<dir, stem, suffix>>: *)
(* the directories are "source_dir", "source_parent" and "cwd", and a       *)
(* relative path names a file directly in one of them.                      *)

Chars_svg == <<"s", "v", "g">>
Chars_png == <<"p", "n", "g">>
DefaultStagePath  == Str("__default_stage_backdrop__.svg")
DefaultSpritePath == Str("__default_sprite_costume__.svg")
DEFAULT_STAGE_SVG  == [fmt |-> "svg", valid |-> TRUE, viewBox |-> <<0, 0, 480, 360>>, layers |-> <<>>, art |-> "stage_rect"]
DEFAULT_SPRITE_SVG == [fmt |-> "svg", valid |-> TRUE, viewBox |-> <<0, 0, 96, 96>>, layers |-> <<>>, art |-> "sprite_circle"]
DEFAULT_SVG_TARGET_SIZE == 64

\* hashlib.md5(data).hexdigest(), idealised as collision-free
Md5(data) == [md5 |-> data]

Half(n) == [num |-> n, den |-> 2]

\* _ProjectBuilder._normalize_svg_root
NormalizeSvgRoot(data, target_size) ==
    [data EXCEPT !.layers  = Append(@, [translate |-> <<0 - data.viewBox[1], 0 - data.viewBox[2]>>,
                                         scale |-> <<[num |-> target_size, den |-> data.viewBox[3]],
                                                     [num |-> target_size, den |-> data.viewBox[4]]>>]),
                 !.viewBox = <<0, 0, target_size, target_size>>]

\* _ProjectBuilder._prepare_svg
PrepareSvg(b, data, scale) ==
    IF ~data.valid
    THEN [b |-> Raise(b, Err("CodegenError", "invalid SVG", 0, 0)), data |-> data, cx |-> Half(0), cy |-> Half(0)]
    ELSE IF scale
    THEN [b |-> b, data |-> NormalizeSvgRoot(data, DEFAULT_SVG_TARGET_SIZE),
          cx |-> Half(DEFAULT_SVG_TARGET_SIZE), cy |-> Half(DEFAULT_SVG_TARGET_SIZE)]
    ELSE [b |-> b, data |-> data, cx |-> Half(data.viewBox[3]), cy |-> Half(data.viewBox[4])]

\* pathlib.Path(text): is_absolute(), the directory, stem and suffix (without its dot)
PathOf(text) ==
    LET slash == LastIndexOf(text, "/")
        name  == SubSeq(text, slash + 1, Len(text))
        dot   == LastIndexOf(name, ".")
    IN  [abs    |-> text # <<>> /\ text[1] = "/",
         dir    |-> IF slash = 0 THEN "rel" ELSE Text(SubSeq(text, IF text[1] = "/" THEN 2 ELSE 1, slash - 1)),
         stem   |-> IF dot <= 1 THEN name ELSE SubSeq(name, 1, dot - 1),
         suffix |-> IF dot <= 1 THEN <<>> ELSE SubSeq(name, dot + 1, Len(name))]

\* str(path) of an absolute location
PathText(location) ==
    <<"/">> \o Str(location[1]) \o <<"/">> \o location[2]
    \o (IF location[3] = <<>> THEN <<>> ELSE <<".">> \o location[3])

\* the candidate locations of a relative costume path, and the one picked
ResolveCostumePath(files, path) ==
    IF path.abs THEN <<path.dir, path.stem, path.suffix>>
    ELSE LET candidates == <<<<"source_dir", path.stem, path.suffix>>,
                             <<"source_parent", path.stem, path.suffix>>,
                             <<"cwd", path.stem, path.suffix>>>>
         IN  IF \E i \in 1..3 : candidates[i] \in DOMAIN files
             THEN candidates[CHOOSE i \in 1..3 : /\ candidates[i] \in DOMAIN files
                                                  /\ \A j \in 1..(i - 1) : candidates[j] \notin DOMAIN files]
             ELSE candidates[1]

\* _build_costumes : the faulty variant that takes the digest of the bytes read, before
\* _prepare_svg
BuildCostumesFromRawDigest(b, files, scale, costumes, idx, costume_json) ==
    IF idx > Len(costumes) \/ b.err # NoError THEN [b |-> b, json |-> costume_json]
    ELSE LET costume  == costumes[idx]
             is_stage_default  == costume.path = DefaultStagePath
             is_sprite_default == costume.path = DefaultSpritePath
             \* the loop body from the existence check on, for the location the path resolves to
             Load(location) ==
                 LET ext == IF is_stage_default \/ is_sprite_default THEN Chars_svg ELSE Lower(location[3])
                 IN  IF ~(is_stage_default \/ is_sprite_default) /\ location \notin DOMAIN files
                     THEN [b |-> Raise(b, Err("CodegenError", "costume file not found", 0, 0)), json |-> costume_json]
                     ELSE IF ext \notin {Chars_svg, Chars_png}
                     THEN [b |-> Raise(b, Err("CodegenError", "unsupported costume format", 0, 0)), json |-> costume_json]
                     ELSE LET raw  == IF is_stage_default THEN DEFAULT_STAGE_SVG
                                      ELSE IF is_sprite_default THEN DEFAULT_SPRITE_SVG ELSE files[location]
                              name == IF is_stage_default THEN <<"b","a","c","k","d","r","o","p">> \o DecimalString(idx)
                                      ELSE IF is_sprite_default THEN <<"c","o","s","t","u","m","e">> \o DecimalString(idx)
                                      ELSE location[2]
                              prep == IF ext = Chars_svg THEN BuilderCall("PrepareSvg", <<b, raw, scale>>)
                                      ELSE [b |-> b, data |-> raw, cx |-> Half(0), cy |-> Half(0)]
                              digest == Md5(raw)
                              md5ext == <<digest, ext>>
                              entry  == [name |-> name, assetId |-> digest, md5ext |-> md5ext, dataFormat |-> ext,
                                         rotationCenterX |-> prep.cx, rotationCenterY |-> prep.cy]
                              entry2 == IF ext = Chars_png THEN entry @@ [bitmapResolution |-> 1] ELSE entry
                          IN  IF prep.b.err # NoError THEN [b |-> prep.b, json |-> costume_json]
                              ELSE BuilderCall("BuildCostumesFrom",
                                               <<[prep.b EXCEPT !.assets = (md5ext :> prep.data) @@ @],
                                                 files, scale, costumes, idx + 1, Append(costume_json, entry2)>>)
         IN  Load(ResolveCostumePath(files, PathOf(costume.path)))

\* _ProjectBuilder._build_costumes : the loop from costume idx on
BuildCostumesFrom(b, files, scale, costumes, idx, costume_json) ==
    IF idx > Len(costumes) \/ b.err # NoError THEN [b |-> b, json |-> costume_json]
    ELSE LET costume  == costumes[idx]
             is_stage_default  == costume.path = DefaultStagePath
             is_sprite_default == costume.path = DefaultSpritePath
             \* the loop body from the existence check on, for the location the path resolves to
             Load(location) ==
                 LET ext == IF is_stage_default \/ is_sprite_default THEN Chars_svg ELSE Lower(location[3])
                 IN  IF ~(is_stage_default \/ is_sprite_default) /\ location \notin DOMAIN files
                     THEN [b |-> Raise(b, Err("CodegenError", "costume file not found", 0, 0)), json |-> costume_json]
                     ELSE IF ext \notin {Chars_svg, Chars_png}
                     THEN [b |-> Raise(b, Err("CodegenError", "unsupported costume format", 0, 0)), json |-> costume_json]
                     ELSE LET raw  == IF is_stage_default THEN DEFAULT_STAGE_SVG
                                      ELSE IF is_sprite_default THEN DEFAULT_SPRITE_SVG ELSE files[location]
                              name == IF is_stage_default THEN <<"b","a","c","k","d","r","o","p">> \o DecimalString(idx)
                                      ELSE IF is_sprite_default THEN <<"c","o","s","t","u","m","e">> \o DecimalString(idx)
                                      ELSE location[2]
                              prep == IF ext = Chars_svg THEN BuilderCall("PrepareSvg", <<b, raw, scale>>)
                                      ELSE [b |-> b, data |-> raw, cx |-> Half(0), cy |-> Half(0)]
                              digest == Md5(prep.data)
                              md5ext == <<digest, ext>>
                              entry  == [name |-> name, assetId |-> digest, md5ext |-> md5ext, dataFormat |-> ext,
                                         rotationCenterX |-> prep.cx, rotationCenterY |-> prep.cy]
                              entry2 == IF ext = Chars_png THEN entry @@ [bitmapResolution |-> 1] ELSE entry
                          IN  IF prep.b.err # NoError THEN [b |-> prep.b, json |-> costume_json]
                              ELSE BuilderCall("BuildCostumesFrom",
                                               <<[prep.b EXCEPT !.assets = (md5ext :> prep.data) @@ @],
                                                 files, scale, costumes, idx + 1, Append(costume_json, entry2)>>)
         IN  Load(ResolveCostumePath(files, PathOf(costume.path)))

\* _ProjectBuilder._build_costumes
BuildCostumes(b, files, scale, target) ==
    LET costumes == IF target.costumes # <<>> THEN target.costumes
                    ELSE IF target.is_stage
                    THEN <<[type |-> "CostumeDecl", line |-> target.line, column |-> target.column, path |-> DefaultStagePath]>>
                    ELSE <<[type |-> "CostumeDecl", line |-> target.line, column |-> target.column, path |-> DefaultSpritePath]>>
    IN  BuilderCall("BuildCostumesFrom", <<b, files, scale, costumes, 1, <<>>>>)

-----------------------------------------------------------------------------
(* _build_target_json, broadcast collection and build() *)

\* The builder as _build_target_json finds it: `blocks` starts empty for each target.
Builder(ctr, bids, log, store) ==
    [ctr |-> ctr, bids |-> bids, minted |-> log, blocks |-> EmptyMap, order |-> <<>>,
     assets |-> store, err |-> NoError]

StageBroadcasts(b, target) ==
    IF target.is_stage
    THEN [id \in {b.bids[m] : m \in DOMAIN b.bids} |-> CHOOSE m \in DOMAIN b.bids : b.bids[m] = id]
    ELSE EmptyMap

\* _ProjectBuilder._build_target_json
BuildTargetJson(b, files, scale, target, layer_order) ==
    LET v   == BuilderCall("DeclareNames", <<b, target.variables, 1, "var", 0, EmptyMap, EmptyMap>>)
        l   == BuilderCall("DeclareNames", <<v.b, target.lists, 1, "list", <<>>, EmptyMap, EmptyMap>>)
        s   == BuilderCall("BuildProcedureSignatures", <<l.b, target>>)
        env == [vmap |-> v.map, lmap |-> l.map, sigs |-> s.sigs, scope |-> {}]
        p   == BuilderCall("EmitProcedures", <<s.b, target.procedures, 1, env, 30>>)
        e   == BuilderCall("EmitScripts", <<p.b, target.scripts, 1, env, p.y>>)
        c   == BuilderCall("BuildCostumes", <<e.b, files, scale, target>>)
        common == [isStage |-> target.is_stage, name |-> target.name,
                   variables |-> v.json, lists |-> l.json,
                   broadcasts |-> StageBroadcasts(c.b, target),
                   blocks |-> c.b.blocks, blockOrder |-> c.b.order,
                   comments |-> EmptyMap, currentCostume |-> 0, costumes |-> c.json,
                   sounds |-> <<>>, volume |-> 100, layerOrder |-> layer_order]
    IN  [b    |-> c.b,
         json |-> IF target.is_stage
                  THEN common @@ [tempo |-> 60, videoTransparency |-> 50, videoState |-> "on",
                                  textToSpeechLanguage |-> Null]
                  ELSE common @@ [visible |-> TRUE, x |-> 0, y |-> 0, size |-> 100, direction |-> 90,
                                  draggable |-> FALSE, rotationStyle |-> "all around"]]

\* self.<method>(args) on a _ProjectBuilder: the methods call one another by name, so
\* every method's body is instantiated once, under this operator
BuilderCall(method, args) ==
    CASE method = "BroadcastId"                  -> BroadcastId(args[1], args[2])
      [] method = "LookupVarId"                  -> LookupVarId(args[1], args[2], args[3])
      [] method = "LookupListId"                 -> LookupListId(args[1], args[2], args[3])
      [] method = "ExprInput"                    -> ExprInput(args[1], args[2], args[3], args[4], args[5])
      [] method = "EmitExprReporter"             -> EmitExprReporter(args[1], args[2], args[3], args[4])
      [] method = "EmitBinaryExpr"               -> EmitBinaryExpr(args[1], args[2], args[3], args[4])
      [] method = "EmitBroadcastStmt"            -> EmitBroadcastStmt(args[1], args[2], args[3])
      [] method = "EmitVarStmt"                  -> EmitVarStmt(args[1], args[2], args[3], args[4], args[5], args[6])
      [] method = "EmitSingleInputStmt"          -> EmitSingleInputStmt(args[1], args[2], args[3], args[4], args[5], args[6], args[7])
      [] method = "EmitGoToXYStmt"               -> EmitGoToXYStmt(args[1], args[2], args[3], args[4])
      [] method = "EmitNoInputStmt"              -> EmitNoInputStmt(args[1], args[2], args[3])
      [] method = "EmitStopStmt"                 -> EmitStopStmt(args[1], args[2], args[3])
      [] method = "EmitListInputStmt"            -> EmitListInputStmt(args[1], args[2], args[3], args[4], args[5], args[6], args[7], args[8])
      [] method = "EmitDeleteAllOfListStmt"      -> EmitDeleteAllOfListStmt(args[1], args[2], args[3], args[4])
      [] method = "EmitListTwoInputStmt"         -> EmitListTwoInputStmt(args[1], args[2], args[3], args[4], args[5], args[6], args[7], args[8], args[9], args[10], args[11])
      [] method = "EmitStatementChainFrom"       -> EmitStatementChainFrom(args[1], args[2], args[3], args[4], args[5], args[6], args[7])
      [] method = "EmitStatementChain"           -> EmitStatementChain(args[1], args[2], args[3], args[4])
      [] method = "EmitRepeatStmt"               -> EmitRepeatStmt(args[1], args[2], args[3], args[4])
      [] method = "EmitForeverStmt"              -> EmitForeverStmt(args[1], args[2], args[3], args[4])
      [] method = "EmitIfStmt"                   -> EmitIfStmt(args[1], args[2], args[3], args[4])
      [] method = "CallInputs"                   -> CallInputs(args[1], args[2], args[3], args[4], args[5], args[6], args[7])
      [] method = "EmitCallStmt"                 -> EmitCallStmt(args[1], args[2], args[3], args[4])
      [] method = "EmitStatement"                -> EmitStatement(args[1], args[2], args[3], args[4])
      [] method = "NewArgIds"                    -> NewArgIds(args[1], args[2], args[3])
      [] method = "BuildProcedureSignaturesFrom" -> BuildProcedureSignaturesFrom(args[1], args[2], args[3], args[4])
      [] method = "BuildProcedureSignatures"     -> BuildProcedureSignatures(args[1], args[2])
      [] method = "PrototypeInputs"              -> PrototypeInputs(args[1], args[2], args[3], args[4], args[5])
      [] method = "EmitProcedureDefinition"      -> EmitProcedureDefinition(args[1], args[2], args[3], args[4])
      [] method = "EmitEventScript"              -> EmitEventScript(args[1], args[2], args[3], args[4])
      [] method = "DeclareNames"                 -> DeclareNames(args[1], args[2], args[3], args[4], args[5], args[6], args[7])
      [] method = "EmitProcedures"               -> EmitProcedures(args[1], args[2], args[3], args[4], args[5])
      [] method = "EmitScripts"                  -> EmitScripts(args[1], args[2], args[3], args[4], args[5])
      [] method = "PrepareSvg"                   -> PrepareSvg(args[1], args[2], args[3])
      [] method = "BuildCostumesFrom"            -> BuildCostumesFrom(args[1], args[2], args[3], args[4], args[5], args[6])
      [] method = "BuildCostumes"                -> BuildCostumes(args[1], args[2], args[3], args[4])
      [] method = "BuildTargetJson"              -> BuildTargetJson(args[1], args[2], args[3], args[4], args[5])

RECURSIVE CollectMessagesFromStatements(_)
RECURSIVE CollectMessagesFromStatementsAll(_)

\* _collect_messages_from_statements as the interning contract describes it
\* (forever bodies scanned too); used only to state what the code misses
CollectMessagesFromStatementsAll(statements) ==
    UNION { LET stmt == statements[k] IN
            CASE stmt.type = "BroadcastStmt" -> {stmt.message}
              [] stmt.type = "RepeatStmt"    -> CollectMessagesFromStatementsAll(stmt.body)
              [] stmt.type = "ForeverStmt"   -> CollectMessagesFromStatementsAll(stmt.body)
              [] stmt.type = "IfStmt"        -> CollectMessagesFromStatementsAll(stmt.then_body)
                                                \cup CollectMessagesFromStatementsAll(stmt.else_body)
              [] OTHER -> {}
          : k \in 1..Len(statements) }

\* _ProjectBuilder._collect_messages_from_statements ; the set of messages added
CollectMessagesFromStatements(statements) ==
    UNION { LET stmt == statements[k] IN
            CASE stmt.type = "BroadcastStmt" -> {stmt.message}
              [] stmt.type = "RepeatStmt"    -> CollectMessagesFromStatements(stmt.body)
              [] stmt.type = "IfStmt"        -> CollectMessagesFromStatements(stmt.then_body)
                                                \cup CollectMessagesFromStatements(stmt.else_body)
              [] OTHER -> {}
          : k \in 1..Len(statements) }

\* the `messages` set of _collect_broadcast_ids
CollectedMessages(proj) ==
    UNION { LET target == proj.targets[t] IN
            UNION { (IF target.scripts[k].event_type = "when_i_receive"
                        /\ target.scripts[k].message \notin {NoneStr, <<>>}
                     THEN {target.scripts[k].message} ELSE {})
                    \cup CollectMessagesFromStatements(target.scripts[k].body)
                  : k \in 1..Len(target.scripts) }
            \cup
            UNION { CollectMessagesFromStatements(target.procedures[k].body)
                  : k \in 1..Len(target.procedures) }
          : t \in 1..Len(proj.targets) }

\* {message: self._new_id("broadcast") for message in sorted(messages)}
RECURSIVE MintBroadcastIds(_, _, _)
MintBroadcastIds(b, sorted, k) ==
    IF k > Len(sorted) THEN b
    ELSE LET n == NewId(b, "broadcast")
         IN  MintBroadcastIds([n.b EXCEPT !.bids = (sorted[k] :> n.id) @@ @], sorted, k + 1)

\* _ProjectBuilder._collect_broadcast_ids
CollectBroadcastIds(b, proj) ==
    MintBroadcastIds(b, SortedStrings(CollectedMessages(proj)), 1)

\* the sort of build : the faulty variant that leaves the targets in their order
StageFirstAsDeclared(targets) == targets

\* sorted(self.project.targets, key=lambda t: 0 if t.is_stage else 1) : a stable sort
StageFirst(targets) ==
    SelectSeq(targets, LAMBDA t : t.is_stage) \o SelectSeq(targets, LAMBDA t : ~t.is_stage)

Chars_Stage == <<"S", "t", "a", "g", "e">>

\* the `while stage_name.lower() in existing_names` loop of _synthesized_stage_target
RECURSIVE SynthesizedStageName(_, _)
SynthesizedStageName(existing_names, suffix) ==
    LET stage_name == IF suffix = 1 THEN Chars_Stage ELSE Chars_Stage \o DecimalString(suffix)
    IN  IF Lower(stage_name) \in existing_names THEN SynthesizedStageName(existing_names, suffix + 1)
        ELSE stage_name

\* _ProjectBuilder._synthesized_stage_target
SynthesizedStageTarget(existing_targets) ==
    [type |-> "Target", line |-> 0, column |-> 0,
     name |-> SynthesizedStageName({Lower(existing_targets[i].name) : i \in 1..Len(existing_targets)}, 1),
     is_stage |-> TRUE, variables |-> <<>>, lists |-> <<>>, costumes |-> <<>>,
     procedures |-> <<>>, scripts |-> <<>>]

-----------------------------------------------------------------------------
(* semantic.py.  Every function returns the SemanticError it raises, or     *)
(* NoError when it returns normally.  An error record carries the line the  *)
(* message reports (line) and the other line it cites (ref).                *)

SemanticError(what, line, ref) == Err("SemanticError", what, line, ref)

\* the sequencing of two statements: the first raise wins
Then(e1, e2) == IF e1 # NoError THEN e1 ELSE e2

\* _ensure_variable_exists : the faulty variant that looks at the declared variables first
EnsureVariableExistsDeclaredFirst(name, variables, param_scope, line) ==
    IF Lower(name) \in variables THEN NoError
    ELSE IF Lower(name) \in param_scope
    THEN SemanticError("variable field refers to a procedure parameter", line, 0)
    ELSE SemanticError("unknown variable", line, 0)

\* _ensure_variable_exists : the variant that takes a parameter of the procedure for a variable
EnsureVariableExistsOrParameter(name, variables, param_scope, line) ==
    IF Lower(name) \in variables \cup param_scope THEN NoError
    ELSE SemanticError("unknown variable", line, 0)

\* semantic._ensure_variable_exists
EnsureVariableExists(name, variables, param_scope, line) ==
    IF Lower(name) \in param_scope
    THEN SemanticError("variable field refers to a procedure parameter", line, 0)
    ELSE IF Lower(name) \notin variables THEN SemanticError("unknown variable", line, 0)
    ELSE NoError

\* semantic._ensure_list_exists
EnsureListExists(name, lists, line) ==
    IF Lower(name) \notin lists THEN SemanticError("unknown list", line, 0) ELSE NoError

RECURSIVE AnalyzeExpr(_, _, _, _)
\* semantic._analyze_expr
AnalyzeExpr(expr, variables, lists, param_scope) ==
    CASE expr.type = "VarExpr" ->
            IF Lower(expr.name) \in param_scope THEN NoError
            ELSE IF Lower(expr.name) \notin variables THEN SemanticError("unknown variable", expr.line, 0)
            ELSE NoError
      [] expr.type = "UnaryExpr" -> AnalyzeExpr(expr.operand, variables, lists, param_scope)
      [] expr.type = "BinaryExpr" ->
            Then(AnalyzeExpr(expr.left, variables, lists, param_scope),
                 AnalyzeExpr(expr.right, variables, lists, param_scope))
      [] expr.type = "PickRandomExpr" ->
            Then(AnalyzeExpr(expr.start, variables, lists, param_scope),
                 AnalyzeExpr(expr.end, variables, lists, param_scope))
      [] expr.type = "ListItemExpr" ->
            Then(EnsureListExists(expr.list_name, lists, expr.line),
                 AnalyzeExpr(expr.index, variables, lists, param_scope))
      [] expr.type = "ListLengthExpr" -> EnsureListExists(expr.list_name, lists, expr.line)
      [] expr.type = "ListContainsExpr" ->
            Then(EnsureListExists(expr.list_name, lists, expr.line),
                 AnalyzeExpr(expr.item, variables, lists, param_scope))
      [] expr.type = "KeyPressedExpr" -> AnalyzeExpr(expr.key, variables, lists, param_scope)
      [] OTHER -> NoError

RECURSIVE AnalyzeExprs(_, _, _, _, _)
\* `for expr in stmt.args: _analyze_expr(...)`
AnalyzeExprs(exprs, k, variables, lists, param_scope) ==
    IF k > Len(exprs) THEN NoError
    ELSE Then(AnalyzeExpr(exprs[k], variables, lists, param_scope),
              AnalyzeExprs(exprs, k + 1, variables, lists, param_scope))

\* the ProcedureCallStmt branch of _analyze_statements : the faulty variant without the line check
AnalyzeCallNoOrder(stmt, variables, lists, procedures, param_scope) ==
    IF Lower(stmt.name) \notin DOMAIN procedures
    THEN SemanticError("unknown procedure", stmt.line, 0)
    ELSE LET proc == procedures[Lower(stmt.name)] IN
         IF Len(stmt.args) # Len(proc.params)
         THEN SemanticError("argument count", stmt.line, 0)
         ELSE AnalyzeExprs(stmt.args, 1, variables, lists, param_scope)

\* the ProcedureCallStmt branch : the faulty variant that does not compare the counts
AnalyzeCallAnyCount(stmt, variables, lists, procedures, param_scope) ==
    IF Lower(stmt.name) \notin DOMAIN procedures
    THEN SemanticError("unknown procedure", stmt.line, 0)
    ELSE LET proc == procedures[Lower(stmt.name)] IN
         IF stmt.line < proc.line
         THEN SemanticError("used before it is defined", stmt.line, proc.line)
         ELSE AnalyzeExprs(stmt.args, 1, variables, lists, param_scope)

\* the ProcedureCallStmt branch of _analyze_statements
AnalyzeCall(stmt, variables, lists, procedures, param_scope) ==
    IF Lower(stmt.name) \notin DOMAIN procedures
    THEN SemanticError("unknown procedure", stmt.line, 0)
    ELSE LET proc == procedures[Lower(stmt.name)] IN
         IF stmt.line < proc.line
         THEN SemanticError("used before it is defined", stmt.line, proc.line)
         ELSE IF Len(stmt.args) # Len(proc.params)
         THEN SemanticError("argument count", stmt.line, 0)
         ELSE AnalyzeExprs(stmt.args, 1, variables, lists, param_scope)

SingleExprStmts ==
    {"MoveStmt", "SayStmt", "ThinkStmt", "WaitStmt", "TurnRightStmt", "TurnLeftStmt",
     "ChangeXByStmt", "ChangeYByStmt", "SetXStmt", "SetYStmt", "PointInDirectionStmt",
     "ChangeSizeByStmt", "SetSizeToStmt", "StopStmt", "AskStmt"}

NoExprStmts ==
    {"IfOnEdgeBounceStmt", "ShowStmt", "HideStmt", "NextCostumeStmt", "NextBackdropStmt",
     "ResetTimerStmt"}

\* the expression a one-expression statement carries, under the attribute the AST gives it
SingleExprOf(stmt) ==
    CASE stmt.type = "MoveStmt" -> stmt.steps
      [] stmt.type \in {"SayStmt", "ThinkStmt"} -> stmt.message
      [] stmt.type = "WaitStmt" -> stmt.duration
      [] stmt.type \in {"TurnRightStmt", "TurnLeftStmt"} -> stmt.degrees
      [] stmt.type = "PointInDirectionStmt" -> stmt.direction
      [] stmt.type = "StopStmt" -> stmt.option
      [] stmt.type = "AskStmt" -> stmt.question
      [] OTHER -> stmt.value

RECURSIVE AnalyzeStatementsFrom(_, _, _, _, _, _)
RECURSIVE AnalyzeStatement(_, _, _, _, _)

\* one iteration of the loop of semantic._analyze_statements
AnalyzeStatement(stmt, variables, lists, procedures, param_scope) ==
    CASE stmt.type = "BroadcastStmt" ->
            IF stmt.message = <<>> THEN SemanticError("broadcast message cannot be empty", stmt.line, 0)
            ELSE NoError
      [] stmt.type = "SetVarStmt" ->
            Then(EnsureVariableExists(stmt.var_name, variables, param_scope, stmt.line),
                 AnalyzeExpr(stmt.value, variables, lists, param_scope))
      [] stmt.type = "ChangeVarStmt" ->
            Then(EnsureVariableExists(stmt.var_name, variables, param_scope, stmt.line),
                 AnalyzeExpr(stmt.delta, variables, lists, param_scope))
      [] stmt.type \in SingleExprStmts -> AnalyzeExpr(SingleExprOf(stmt), variables, lists, param_scope)
      [] stmt.type = "GoToXYStmt" ->
            Then(AnalyzeExpr(stmt.x, variables, lists, param_scope),
                 AnalyzeExpr(stmt.y, variables, lists, param_scope))
      [] stmt.type \in NoExprStmts -> NoError
      [] stmt.type = "AddToListStmt" ->
            Then(EnsureListExists(stmt.list_name, lists, stmt.line),
                 AnalyzeExpr(stmt.item, variables, lists, param_scope))
      [] stmt.type = "DeleteOfListStmt" ->
            Then(EnsureListExists(stmt.list_name, lists, stmt.line),
                 AnalyzeExpr(stmt.index, variables, lists, param_scope))
      [] stmt.type = "DeleteAllOfListStmt" -> EnsureListExists(stmt.list_name, lists, stmt.line)
      [] stmt.type = "InsertAtListStmt" ->
            Then(EnsureListExists(stmt.list_name, lists, stmt.line),
                 Then(AnalyzeExpr(stmt.item, variables, lists, param_scope),
                      AnalyzeExpr(stmt.index, variables, lists, param_scope)))
      [] stmt.type = "ReplaceItemOfListStmt" ->
            Then(EnsureListExists(stmt.list_name, lists, stmt.line),
                 Then(AnalyzeExpr(stmt.index, variables, lists, param_scope),
                      AnalyzeExpr(stmt.item, variables, lists, param_scope)))
      [] stmt.type = "RepeatStmt" ->
            Then(AnalyzeExpr(stmt.times, variables, lists, param_scope),
                 AnalyzeStatementsFrom(stmt.body, 1, variables, lists, procedures, param_scope))
      [] stmt.type = "ForeverStmt" ->
            AnalyzeStatementsFrom(stmt.body, 1, variables, lists, procedures, param_scope)
      [] stmt.type = "IfStmt" ->
            Then(AnalyzeExpr(stmt.condition, variables, lists, param_scope),
                 Then(AnalyzeStatementsFrom(stmt.then_body, 1, variables, lists, procedures, param_scope),
                      AnalyzeStatementsFrom(stmt.else_body, 1, variables, lists, procedures, param_scope)))
      [] stmt.type = "ProcedureCallStmt" ->
            AnalyzeCall(stmt, variables, lists, procedures, param_scope)
      [] OTHER -> SemanticError("unsupported statement type", stmt.line, 0)

AnalyzeStatementsFrom(statements, k, variables, lists, procedures, param_scope) ==
    IF k > Len(statements) THEN NoError
    ELSE Then(AnalyzeStatement(statements[k], variables, lists, procedures, param_scope),
              AnalyzeStatementsFrom(statements, k + 1, variables, lists, procedures, param_scope))

\* semantic._analyze_statements
AnalyzeStatements(statements, variables, lists, procedures, param_scope) ==
    AnalyzeStatementsFrom(statements, 1, variables, lists, procedures, param_scope)

\* semantic._analyze_event_script : the faulty variant in which the parameters of the
\* target's procedures are in scope
AnalyzeEventScriptAnyScope(script, variables, lists, procedures) ==
    AnalyzeStatements(script.body, variables, lists, procedures,
                      UNION {{Lower(procedures[name].params[i]) : i \in 1..Len(procedures[name].params)}
                               : name \in DOMAIN procedures})

\* semantic._analyze_event_script
AnalyzeEventScript(script, variables, lists, procedures) ==
    AnalyzeStatements(script.body, variables, lists, procedures, {})

RECURSIVE DeclLoopExact(_, _, _, _)
\* the duplicate-name loops : the faulty variant that compares the names as written
DeclLoopExact(decls, k, seen, what) ==
    IF k > Len(decls) THEN [err |-> NoError, names |-> {Lower(n) : n \in seen}]
    ELSE IF decls[k].name \in seen
    THEN [err |-> SemanticError(what, decls[k].line, 0), names |-> seen]
    ELSE DeclLoopExact(decls, k + 1, seen \cup {decls[k].name}, what)

RECURSIVE DeclLoop(_, _, _, _)
\* the duplicate-name loops over target.variables and target.lists
DeclLoop(decls, k, seen, what) ==
    IF k > Len(decls) THEN [err |-> NoError, names |-> seen]
    ELSE IF Lower(decls[k].name) \in seen
    THEN [err |-> SemanticError(what, decls[k].line, 0), names |-> seen]
    ELSE DeclLoop(decls, k + 1, seen \cup {Lower(decls[k].name)}, what)

RECURSIVE ProcedureLoop(_, _, _)
\* the loop of _analyze_target that fills `procedures` (ProcedureInfo by lowered name)
ProcedureLoop(procs, k, procedures) ==
    IF k > Len(procs) THEN [err |-> NoError, procedures |-> procedures]
    ELSE LET procedure == procs[k]
             lowered == Lower(procedure.name)
         IN  IF lowered \in DOMAIN procedures
             THEN [err |-> SemanticError("procedure already defined", procedure.line, procedures[lowered].line),
                   procedures |-> procedures]
             ELSE IF Cardinality({Lower(procedure.params[i]) : i \in 1..Len(procedure.params)})
                        # Len(procedure.params)
             THEN [err |-> SemanticError("duplicate parameter names", procedure.line, 0),
                   procedures |-> procedures]
             ELSE ProcedureLoop(procs, k + 1,
                     (lowered :> [name |-> procedure.name, line |-> procedure.line,
                                  params |-> procedure.params]) @@ procedures)

RECURSIVE AnalyzeProcedureBodies(_, _, _, _, _)
AnalyzeProcedureBodies(procs, k, variables, lists, procedures) ==
    IF k > Len(procs) THEN NoError
    ELSE Then(AnalyzeStatements(procs[k].body, variables, lists, procedures,
                                {Lower(procs[k].params[i]) : i \in 1..Len(procs[k].params)}),
              AnalyzeProcedureBodies(procs, k + 1, variables, lists, procedures))

RECURSIVE AnalyzeScripts(_, _, _, _, _)
AnalyzeScripts(scripts, k, variables, lists, procedures) ==
    IF k > Len(scripts) THEN NoError
    ELSE Then(AnalyzeEventScript(scripts[k], variables, lists, procedures),
              AnalyzeScripts(scripts, k + 1, variables, lists, procedures))

\* semantic._analyze_target
AnalyzeTarget(target) ==
    LET v == DeclLoop(target.variables, 1, {}, "duplicate variable")
        l == DeclLoop(target.lists, 1, {}, "duplicate list")
        p == ProcedureLoop(target.procedures, 1, EmptyMap)
    IN  IF v.err # NoError THEN v.err
        ELSE IF l.err # NoError THEN l.err
        ELSE IF p.err # NoError THEN p.err
        ELSE Then(AnalyzeProcedureBodies(target.procedures, 1, v.names, l.names, p.procedures),
                  AnalyzeScripts(target.scripts, 1, v.names, l.names, p.procedures))

RECURSIVE AnalyzeTargets(_, _, _)
\* the loop of semantic.analyze
AnalyzeTargets(targets, k, names) ==
    IF k > Len(targets) THEN NoError
    ELSE IF Lower(targets[k].name) \in names
    THEN SemanticError("duplicate target name", targets[k].line, 0)
    ELSE Then(AnalyzeTarget(targets[k]),
              AnalyzeTargets(targets, k + 1, names \cup {Lower(targets[k].name)}))

\* semantic.analyze
Analyze(proj) ==
    IF proj.targets = <<>> THEN SemanticError("project must define at least one target", 0, 0)
    ELSE IF Cardinality({t \in 1..Len(proj.targets) : proj.targets[t].is_stage}) > 1
    THEN SemanticError("project can only define one stage", 0, 0)
    ELSE AnalyzeTargets(proj.targets, 1, {})

-----------------------------------------------------------------------------
(* The AST of parser.py (dataclasses, lines 12-314) as records: `type` is   *)
(* the class name, the other fields are the dataclass attributes.  Nodes    *)
(* are first built at line 0 and then placed on source lines by Layout.     *)


NumberExpr(value)  == Node("NumberExpr") @@ [value |-> value]
StringExpr(value)  == Node("StringExpr") @@ [value |-> value]
VarExpr(name)      == Node("VarExpr") @@ [name |-> name]
PickRandomExpr(start, end)         == Node("PickRandomExpr") @@ [start |-> start, end |-> end]
ListItemExpr(list_name, index)     == Node("ListItemExpr") @@ [list_name |-> list_name, index |-> index]
ListLengthExpr(list_name)          == Node("ListLengthExpr") @@ [list_name |-> list_name]
ListContainsExpr(list_name, item)  == Node("ListContainsExpr") @@ [list_name |-> list_name, item |-> item]
KeyPressedExpr(key)                == Node("KeyPressedExpr") @@ [key |-> key]
BuiltinReporterExpr(kind)          == Node("BuiltinReporterExpr") @@ [kind |-> kind]
Unary(op, operand)                 == UnaryExpr(0, 1, op, operand)
Binary(op, left, right)            == BinaryExpr(0, 1, op, left, right)

BroadcastStmt(message)        == Node("BroadcastStmt") @@ [message |-> message]
SetVarStmt(var_name, value)   == Node("SetVarStmt") @@ [var_name |-> var_name, value |-> value]
ChangeVarStmt(var_name, delta) == Node("ChangeVarStmt") @@ [var_name |-> var_name, delta |-> delta]
RepeatStmt(times, body)       == Node("RepeatStmt") @@ [times |-> times, body |-> body]
ForeverStmt(body)             == Node("ForeverStmt") @@ [body |-> body]
IfStmt(condition, then_body, else_body) ==
    Node("IfStmt") @@ [condition |-> condition, then_body |-> then_body, else_body |-> else_body]
ProcedureCallStmt(name, args) == Node("ProcedureCallStmt") @@ [name |-> name, args |-> args]
GoToXYStmt(x, y)              == Node("GoToXYStmt") @@ [x |-> x, y |-> y]
AddToListStmt(list_name, item)      == Node("AddToListStmt") @@ [list_name |-> list_name, item |-> item]
DeleteOfListStmt(list_name, index)  == Node("DeleteOfListStmt") @@ [list_name |-> list_name, index |-> index]
DeleteAllOfListStmt(list_name)      == Node("DeleteAllOfListStmt") @@ [list_name |-> list_name]
InsertAtListStmt(list_name, item, index) ==
    Node("InsertAtListStmt") @@ [list_name |-> list_name, item |-> item, index |-> index]
ReplaceItemOfListStmt(list_name, index, item) ==
    Node("ReplaceItemOfListStmt") @@ [list_name |-> list_name, index |-> index, item |-> item]
NoExprStmt(type) == Node(type)

\* a statement class with one Expr attribute, under that attribute's name
SingleExprStmt(type, expr) ==
    CASE type = "MoveStmt" -> Node(type) @@ [steps |-> expr]
      [] type \in {"SayStmt", "ThinkStmt"} -> Node(type) @@ [message |-> expr]
      [] type = "WaitStmt" -> Node(type) @@ [duration |-> expr]
      [] type \in {"TurnRightStmt", "TurnLeftStmt"} -> Node(type) @@ [degrees |-> expr]
      [] type = "PointInDirectionStmt" -> Node(type) @@ [direction |-> expr]
      [] type = "StopStmt" -> Node(type) @@ [option |-> expr]
      [] type = "AskStmt" -> Node(type) @@ [question |-> expr]
      [] OTHER -> Node(type) @@ [value |-> expr]

EventScript(event_type, message, body) ==
    Node("EventScript") @@ [event_type |-> event_type, message |-> message, body |-> body]
Procedure(name, params, body) ==
    Node("Procedure") @@ [name |-> name, params |-> params, body |-> body]
CostumeDecl(path)  == Node("CostumeDecl") @@ [path |-> path]
VariableDecl(name) == Node("VariableDecl") @@ [name |-> name]
ListDecl(name)     == Node("ListDecl") @@ [name |-> name]
Target(name, is_stage, variables, lists, costumes, procedures, scripts) ==
    Node("Target") @@ [name |-> name, is_stage |-> is_stage, variables |-> variables, lists |-> lists,
                       costumes |-> costumes, procedures |-> procedures, scripts |-> scripts]
Project(targets) == [type |-> "Project", line |-> 1, column |-> 1, targets |-> targets]

-----------------------------------------------------------------------------
(* Layout: the positions the parser records.  Every node carries the line   *)
(* of its first token.  A statement's expressions are on the statement's    *)
(* line; in the spread layout each statement, `else` and `end` has a line   *)
(* of its own, in the compact layout a whole procedure or script is on one  *)
(* line.  Columns are those of the first token of the line.                 *)

RECURSIVE ExprAt(_, _)
ExprAt(expr, line) ==
    LET here == [expr EXCEPT !.line = line] IN
    CASE expr.type = "PickRandomExpr" ->
            [here EXCEPT !.start = ExprAt(expr.start, line), !.end = ExprAt(expr.end, line)]
      [] expr.type = "ListItemExpr" -> [here EXCEPT !.index = ExprAt(expr.index, line)]
      [] expr.type = "ListContainsExpr" -> [here EXCEPT !.item = ExprAt(expr.item, line)]
      [] expr.type = "KeyPressedExpr" -> [here EXCEPT !.key = ExprAt(expr.key, line)]
      [] expr.type = "UnaryExpr" -> [here EXCEPT !.operand = ExprAt(expr.operand, line)]
      [] expr.type = "BinaryExpr" ->
            [here EXCEPT !.left = ExprAt(expr.left, line), !.right = ExprAt(expr.right, line)]
      [] OTHER -> here

RECURSIVE StatementsAt(_, _, _, _)
RECURSIVE StatementAt(_, _, _)

\* the statement placed at `line`; next is the first line after it
StatementAt(stmt, line, spread) ==
    LET here == [stmt EXCEPT !.line = line]
        step == IF spread THEN 1 ELSE 0
    IN  CASE stmt.type = "RepeatStmt" ->
                LET body == StatementsAt(stmt.body, 1, line + step, spread)
                IN  [stmt |-> [here EXCEPT !.times = ExprAt(stmt.times, line), !.body = body.stmts],
                     next |-> body.next + step]
          [] stmt.type = "ForeverStmt" ->
                LET body == StatementsAt(stmt.body, 1, line + step, spread)
                IN  [stmt |-> [here EXCEPT !.body = body.stmts], next |-> body.next + step]
          [] stmt.type = "IfStmt" ->
                LET then_body == StatementsAt(stmt.then_body, 1, line + step, spread)
                    else_line == IF stmt.else_body = <<>> THEN then_body.next ELSE then_body.next + step
                    else_body == StatementsAt(stmt.else_body, 1, else_line, spread)
                IN  [stmt |-> [here EXCEPT !.condition = ExprAt(stmt.condition, line),
                                           !.then_body = then_body.stmts, !.else_body = else_body.stmts],
                     next |-> else_body.next + step]
          [] stmt.type = "ProcedureCallStmt" ->
                [stmt |-> [here EXCEPT !.args = [i \in 1..Len(stmt.args) |-> ExprAt(stmt.args[i], line)]],
                 next |-> line + step]
          [] stmt.type \in {"SetVarStmt"} ->
                [stmt |-> [here EXCEPT !.value = ExprAt(stmt.value, line)], next |-> line + step]
          [] stmt.type \in {"ChangeVarStmt"} ->
                [stmt |-> [here EXCEPT !.delta = ExprAt(stmt.delta, line)], next |-> line + step]
          [] stmt.type = "GoToXYStmt" ->
                [stmt |-> [here EXCEPT !.x = ExprAt(stmt.x, line), !.y = ExprAt(stmt.y, line)],
                 next |-> line + step]
          [] stmt.type \in {"AddToListStmt"} ->
                [stmt |-> [here EXCEPT !.item = ExprAt(stmt.item, line)], next |-> line + step]
          [] stmt.type \in {"DeleteOfListStmt"} ->
                [stmt |-> [here EXCEPT !.index = ExprAt(stmt.index, line)], next |-> line + step]
          [] stmt.type \in {"InsertAtListStmt", "ReplaceItemOfListStmt"} ->
                [stmt |-> [here EXCEPT !.item = ExprAt(stmt.item, line), !.index = ExprAt(stmt.index, line)],
                 next |-> line + step]
          [] stmt.type \in SingleExprStmts ->
                [stmt |-> [SingleExprStmt(stmt.type, ExprAt(SingleExprOf(stmt), line)) EXCEPT !.line = line],
                 next |-> line + step]
          [] OTHER -> [stmt |-> here, next |-> line + step]

StatementsAt(statements, k, line, spread) ==
    IF k > Len(statements) THEN [stmts |-> <<>>, next |-> line]
    ELSE LET After(head) ==
                 LET rest == StatementsAt(statements, k + 1, head.next, spread)
                 IN  [stmts |-> <<head.stmt>> \o rest.stmts, next |-> rest.next]
         IN  After(StatementAt(statements[k], line, spread))

\* a procedure or an event script placed at `line`: header, body, `end`
ItemAt(item, line, spread) ==
    LET step == IF spread THEN 1 ELSE 0
        Placed(body) == [item |-> [item EXCEPT !.line = line, !.body = body.stmts], next |-> body.next + 1]
    IN  Placed(StatementsAt(item.body, 1, line + step, spread))

RECURSIVE ItemsAt(_, _, _, _)
ItemsAt(items, k, line, spread) ==
    IF k > Len(items) THEN [items |-> <<>>, next |-> line]
    ELSE LET After(head) ==
                 LET rest == ItemsAt(items, k + 1, head.next, spread)
                 IN  [items |-> <<head.item>> \o rest.items, next |-> rest.next]
         IN  After(ItemAt(items[k], line, spread))

RECURSIVE DeclsAt(_, _, _)
DeclsAt(decls, k, line) ==
    IF k > Len(decls) THEN <<>>
    ELSE <<[decls[k] EXCEPT !.line = line]>> \o DeclsAt(decls, k + 1, line + 1)

\* a target whose header is at `line`: declarations, then the procedures and
\* scripts in the order `items` gives them, then `end`
TargetAt(name, is_stage, variables, lists, costumes, items, line, spread) ==
    LET v == DeclsAt(variables, 1, line + 1)
        l == DeclsAt(lists, 1, line + 1 + Len(variables))
        c == DeclsAt(costumes, 1, line + 1 + Len(variables) + Len(lists))
        Placed(placed) ==
            [target |-> [Target(name, is_stage, v, l, c,
                                SelectSeq(placed.items, LAMBDA i : i.type = "Procedure"),
                                SelectSeq(placed.items, LAMBDA i : i.type = "EventScript"))
                         EXCEPT !.line = line],
             next |-> placed.next + 1]
    IN  Placed(ItemsAt(items, 1, line + 1 + Len(variables) + Len(lists) + Len(costumes), spread))

-----------------------------------------------------------------------------
(* Bounded inputs of the code generator *)

MaxDepth == 2
MaxChain == 3

Chars(c) == <<c>>
MsgA == <<"a">>
MsgB == <<"B">>
Messages == {MsgA, MsgB}

One == NumberExpr(1)
Cond == Binary("=", One, One)

RECURSIVE Wrapped(_)
\* a broadcast under at most d levels of repeat, forever and if/else
Wrapped(d) ==
    IF d = 0 THEN {BroadcastStmt(m) : m \in Messages}
    ELSE LET W == Wrapped(d - 1)
         IN  W \cup {RepeatStmt(One, <<w>>) : w \in W} \cup {ForeverStmt(<<w>>) : w \in W}
               \cup {IfStmt(Cond, <<w>>, <<>>) : w \in W} \cup {IfStmt(Cond, <<>>, <<w>>) : w \in W}

Flag == EventScript("when_flag_clicked", NoneStr, <<>>)
Receive(m) == EventScript("when_i_receive", m, <<>>)
WithBody(item, body) == [item EXCEPT !.body = body]

Name_Stage == Chars_Stage
Name_A == <<"A">>
Name_p == <<"p">>

\* projects that differ in where their broadcasts are: an optional stage and sprite A,
\* the sprite's statements in its script or in a procedure the script calls
BroadcastProjects ==
    LET bodies  == {<<w>> : w \in Wrapped(MaxDepth)}
                   \cup {<<BroadcastStmt(m1), BroadcastStmt(m2)>> : m1 \in Messages, m2 \in Messages}
        hats    == {Flag, Receive(MsgB)}
        sprites == {<<WithBody(h, body)>> : h \in hats, body \in bodies}
                   \cup {<<Procedure(Name_p, <<>>, body), WithBody(h, <<ProcedureCallStmt(Name_p, <<>>)>>)>>
                           : h \in hats, body \in bodies}
        stages  == {<<Flag>>, <<Receive(MsgA)>>, <<Receive(MsgB)>>}
                   \cup {<<WithBody(Flag, <<ForeverStmt(<<BroadcastStmt(m)>>)>>)>> : m \in Messages}
        Placed(items, is_stage, line) ==
            TargetAt(IF is_stage THEN Name_Stage ELSE Name_A, is_stage, <<>>, <<>>, <<>>, items, line, TRUE)
        \* the project of one target followed by another
        Pair(first, items, is_stage) == Project(<<first.target, Placed(items, is_stage, first.next).target>>)
    IN  {Project(<<Placed(sp, FALSE, 1).target>>) : sp \in sprites}
        \cup {IF stage_first THEN Pair(Placed(st, TRUE, 1), sp, FALSE) ELSE Pair(Placed(sp, FALSE, 1), st, TRUE)
                : st \in stages, sp \in sprites, stage_first \in BOOLEAN}


Name_v == <<"v">>
Name_V == <<"V">>
Name_n == <<"n">>
Name_q == <<"q">>
Name_L == <<"L">>
Name_inc == <<"i", "n", "c">>
Str_hi == StringExpr(<<"h", "i">>)
Var_v == VarExpr(Name_v)

BinaryOps == {"+", "-", "*", "/", "%", "<", ">", "=", "==", "<=", ">=", "!=", "and", "or"}

SmallExprs == {NumberExpr(3), Var_v, Binary("+", Var_v, One), PickRandomExpr(One, Var_v)}

ExprPool ==
    SmallExprs
    \cup {Str_hi, VarExpr(Name_V), VarExpr(Name_n), VarExpr(Name_q),
          ListItemExpr(Name_L, One), ListItemExpr(Name_L, Var_v), ListItemExpr(Name_q, One),
          ListLengthExpr(Name_L), ListContainsExpr(Name_L, Str_hi), ListContainsExpr(Name_L, Var_v),
          KeyPressedExpr(Str_hi), KeyPressedExpr(Var_v),
          Unary("-", Var_v), Unary("-", One), Unary("not", Cond), Unary("not", Var_v),
          Binary("+", Binary("*", Var_v, One), One), Binary("and", Cond, Unary("not", Cond))}
    \cup {BuiltinReporterExpr(kind) : kind \in {"answer", "mouse_x", "mouse_y", "timer"}}
    \cup {Binary(op, Var_v, One) : op \in BinaryOps}

Say_hi == SingleExprStmt("SayStmt", Str_hi)
Set_v  == SetVarStmt(Name_v, Binary("+", Var_v, One))

\* statements of every class
StmtPool ==
    {SingleExprStmt(type, e) : type \in SingleExprStmts, e \in SmallExprs}
    \cup {SingleExprStmt("SayStmt", e) : e \in ExprPool}
    \cup {SingleExprStmt("StopStmt", Str_hi)}
    \cup {BroadcastStmt(MsgA)}
    \cup {NoExprStmt(type) : type \in NoExprStmts}
    \cup {SetVarStmt(name, e) : name \in {Name_v, Name_V, Name_n}, e \in SmallExprs}
    \cup {ChangeVarStmt(Name_v, e) : e \in SmallExprs}
    \cup {GoToXYStmt(e, Var_v) : e \in SmallExprs}
    \cup {AddToListStmt(Name_L, e) : e \in SmallExprs}
    \cup {DeleteOfListStmt(Name_L, e) : e \in SmallExprs}
    \cup {DeleteAllOfListStmt(name) : name \in {Name_L, Name_q}}
    \cup {InsertAtListStmt(Name_L, e, One) : e \in SmallExprs}
    \cup {ReplaceItemOfListStmt(Name_L, One, e) : e \in SmallExprs}
    \cup {ProcedureCallStmt(Name_inc, <<e>>) : e \in SmallExprs}
    \cup {ProcedureCallStmt(Name_inc, <<>>), ProcedureCallStmt(Name_q, <<>>),
          ProcedureCallStmt(Name_inc, <<One, Var_v>>)}
    \cup {RepeatStmt(e, <<Say_hi>>) : e \in SmallExprs}
    \cup {RepeatStmt(One, <<>>), ForeverStmt(<<>>), ForeverStmt(<<Set_v>>),
          IfStmt(Cond, <<>>, <<>>), IfStmt(Var_v, <<Say_hi>>, <<Set_v>>)}

ChainPool == {Say_hi, Set_v, RepeatStmt(Var_v, <<Say_hi, Set_v>>)}

RECURSIVE Chains(_)
\* the statement chains of 2 to n statements
Chains(n) ==
    IF n < 2 THEN {}
    ELSE Chains(n - 1) \cup {c \in [1..n -> ChainPool] : TRUE}

\* sprite A with variable v, list L and procedure inc (n); the body under test is the
\* script's or the procedure's
StatementProjects ==
    LET bodies == {<<stmt>> : stmt \in StmtPool} \cup Chains(MaxChain)
        call   == ProcedureCallStmt(Name_inc, <<One>>)
        items  == {<<Procedure(Name_inc, <<Name_n>>, <<>>), WithBody(Flag, body)>> : body \in bodies}
                  \cup {<<Procedure(Name_inc, <<Name_n>>, body), WithBody(Flag, <<call>>)>> : body \in bodies}
    IN  {Project(<<TargetAt(Name_A, FALSE, <<VariableDecl(Name_v)>>, <<ListDecl(Name_L)>>, <<>>,
                            it, 1, TRUE).target>>) : it \in items}

Svg(viewBox, art) == [fmt |-> "svg", valid |-> TRUE, viewBox |-> viewBox, layers |-> <<>>, art |-> art]

\* the files beside the source
Disk ==
    (<<"source_dir", <<"c", "a", "t">>, Chars_svg>> :> Svg(<<0, 0, 64, 64>>, "cat"))
    @@ (<<"source_parent", <<"d", "o", "g">>, <<"S", "V", "G">>>> :> Svg(<<2, 4, 10, 20>>, "dog"))
    @@ (<<"cwd", <<"c", "a", "t">>, Chars_svg>> :> Svg(<<0, 0, 32, 32>>, "other cat"))
    @@ (<<"cwd", <<"b", "a", "d">>, Chars_svg>> :> [Svg(<<0, 0, 1, 1>>, "") EXCEPT !.valid = FALSE])
    @@ (<<"source_dir", <<"p", "i", "c">>, Chars_png>> :> [fmt |-> "png", art |-> "pic"])
    @@ (<<"source_dir", <<"d", "o", "c">>, <<"t", "x", "t">>>> :> [fmt |-> "txt", art |-> "doc"])

CostumePaths ==
    {Str("cat.svg"), Str("/cwd/cat.svg"), Str("dog.SVG"), Str("bad.svg"), Str("pic.png"), Str("doc.txt"),
     Str("no.svg")}

\* a stage and a sprite with up to two costumes each
CostumeProjects ==
    LET lists == {<<>>} \cup {<<CostumeDecl(c)>> : c \in CostumePaths}
                 \cup {<<CostumeDecl(c), CostumeDecl(d)>> : c \in CostumePaths, d \in CostumePaths}
        one   == {<<>>} \cup {<<CostumeDecl(c)>> : c \in CostumePaths}
    IN  {Project(<<TargetAt(Name_A, FALSE, <<>>, <<>>, cs, <<>>, 1, TRUE).target>>) : cs \in lists}
        \cup {Project(<<TargetAt(Name_Stage, TRUE, <<>>, <<>>, st, <<>>, 1, TRUE).target,
                        TargetAt(Name_A, FALSE, <<>>, <<>>, cs, <<>>, 3 + Len(st), TRUE).target>>)
                : st \in one, cs \in one}

\* sprites A and B with one costume each, from files that are the same, differ, or differ
\* in format
SharedCostumeProjects ==
    LET paths == {Str("cat.svg"), Str("/cwd/cat.svg"), Str("dog.SVG"), Str("pic.png")}
        A(c)  == TargetAt(Name_A, FALSE, <<>>, <<>>, <<CostumeDecl(c)>>, <<>>, 1, TRUE)
    IN  {Project(<<A(c).target, TargetAt(<<"B">>, FALSE, <<>>, <<>>, <<CostumeDecl(d)>>, <<>>, A(c).next, TRUE).target>>)
           : c \in paths, d \in paths}

\* the arguments of generate_project_json: project, the files on disk, scale_svgs
Name_N == <<"N">>

RECURSIVE Nested(_, _)
\* the statements of a set under at most d levels of repeat, forever and if/else
Nested(stmts, d) ==
    IF d = 0 THEN stmts
    ELSE LET W == Nested(stmts, d - 1)
         IN  W \cup {RepeatStmt(One, <<w>>) : w \in W} \cup {ForeverStmt(<<Say_hi, w>>) : w \in W}
               \cup {IfStmt(Cond, <<>>, <<w>>) : w \in W}

\* `set [x] to` / `change [x] by` on the parameter n (as written and in another case) and on
\* the variable v, with a literal and with a read of n
ParamFields ==
    {SetVarStmt(x, e) : x \in {Name_n, Name_N, Name_v}, e \in {One, VarExpr(Name_n)}}
    \cup {ChangeVarStmt(x, e) : x \in {Name_n, Name_N, Name_v}, e \in {One, VarExpr(Name_N)}}

\* statements that only read n
ParamReads ==
    {SingleExprStmt("SayStmt", VarExpr(x)) : x \in {Name_n, Name_N}}
    \cup {RepeatStmt(VarExpr(Name_n), <<Say_hi>>), IfStmt(Binary("<", VarExpr(Name_n), One), <<Say_hi>>, <<>>)}

\* sprite A with the variable v, with or without a variable n, and the procedure inc (n);
\* the statement under test is the body of inc or of the script
ParamFieldProjects ==
    LET stmts == Nested(ParamFields \cup ParamReads, MaxDepth)
        call  == ProcedureCallStmt(Name_inc, <<One>>)
        items == {<<Procedure(Name_inc, <<Name_n>>, <<stmt>>), WithBody(Flag, <<call>>)>> : stmt \in stmts}
                 \cup {<<Procedure(Name_inc, <<Name_n>>, <<>>), WithBody(Flag, <<stmt>>)>> : stmt \in ParamFields \cup ParamReads}
    IN  {Project(<<TargetAt(Name_A, FALSE, vs, <<>>, <<>>, it, 1, TRUE).target>>)
           : vs \in {<<VariableDecl(Name_v)>>, <<VariableDecl(Name_v), VariableDecl(Name_N)>>}, it \in items}

Name_hello == <<"h", "e", "l", "l", "o">>

\* calls of inc and hello with zero, one and two arguments and in another letter case
ArgCalls ==
    {ProcedureCallStmt(name, args)
        : name \in {Name_inc, <<"I", "N", "C">>, Name_hello, <<"H", "E", "L", "L", "O">>},
          args \in {<<>>, <<One>>, <<One, Var_v>>}}

\* sprite A defines inc (n) and hello (p) (q); sprite B defines inc without parameters;
\* the call under test is in the script of A or of B, bare or inside a repeat or an else
CallProjects ==
    LET calls == ArgCalls \cup {RepeatStmt(One, <<c>>) : c \in ArgCalls}
                          \cup {IfStmt(Cond, <<Say_hi>>, <<c>>) : c \in ArgCalls}
        defsA == <<Procedure(Name_inc, <<Name_n>>, <<>>), Procedure(Name_hello, <<Name_p, Name_q>>, <<>>)>>
        defsB == <<Procedure(Name_inc, <<>>, <<>>)>>
        A(body) == TargetAt(Name_A, FALSE, <<VariableDecl(Name_v)>>, <<>>, <<>>,
                            defsA \o <<WithBody(Flag, body)>>, 1, TRUE)
        B(body, line) == TargetAt(<<"B">>, FALSE, <<VariableDecl(Name_v)>>, <<>>, <<>>,
                                  defsB \o <<WithBody(Flag, body)>>, line, TRUE)
    IN  {Project(<<A(<<c>>).target, B(<<>>, A(<<c>>).next).target>>) : c \in calls}
        \cup {Project(<<A(<<>>).target, B(<<c>>, A(<<>>).next).target>>) : c \in calls}

\* the operands of the desugared operators: a literal, a variable, the parameter n, an
\* operator block and a negation
LoweringOperands == {One, Var_v, VarExpr(Name_n), Binary("+", Var_v, One), Unary("-", Var_v)}

\* `a <= b`, `a >= b`, `a != b` and `-a` over these operands, and the desugared operators
\* as operands of each other
LoweringExprs ==
    {Binary(op, a, b) : op \in {"<=", ">=", "!="}, a \in LoweringOperands, b \in LoweringOperands}
    \cup {Unary("-", a) : a \in LoweringOperands}
    \cup {Unary("-", Binary("<=", Var_v, One)),
          Binary("<=", Binary("!=", Var_v, One), Binary(">=", One, Var_v)),
          Binary("!=", Binary("<=", Var_v, Var_v), Unary("-", One))}

\* sprite A with variable v and procedure inc (n); `say (e)` is the body of the script or
\* of inc
LoweringProjects ==
    LET call  == ProcedureCallStmt(Name_inc, <<One>>)
        Say(e) == SingleExprStmt("SayStmt", e)
        items == {<<Procedure(Name_inc, <<Name_n>>, <<>>), WithBody(Flag, <<Say(e)>>)>> : e \in LoweringExprs}
                 \cup {<<Procedure(Name_inc, <<Name_n>>, <<Say(e)>>), WithBody(Flag, <<call>>)>> : e \in LoweringExprs}
    IN  {Project(<<TargetAt(Name_A, FALSE, <<VariableDecl(Name_v)>>, <<>>, <<>>, it, 1, TRUE).target>>)
           : it \in items}

CodegenInputs ==
    {[project |-> p, disk |-> EmptyMap, scale_svgs |-> FALSE] : p \in BroadcastProjects \cup StatementProjects \cup ParamFieldProjects \cup CallProjects
                                                                    \cup LoweringProjects}
    \cup {[project |-> p, disk |-> Disk, scale_svgs |-> sc] : p \in CostumeProjects \cup SharedCostumeProjects, sc \in BOOLEAN}

-----------------------------------------------------------------------------
(* generate_project_json as a state machine: one step per call build()      *)
(* makes.  cg_pc is build()'s position.                                      *)

\* an output path at which there is no file
Absent == [exists |-> FALSE, project_json |-> <<>>, assets |-> EmptyMap]

\* nothing returned or raised yet by resolve_project_from_path
NoResult == [project |-> Project(<<>>), err |-> NoError, cycle |-> <<>>]

SemIdle == /\ sem_project = Project(<<>>) /\ sem_pc = "idle" /\ sem_result = NoError
CfIdle  == /\ cf_input = <<>> /\ cf_pc = "idle" /\ cf_project = Project(<<>>)
           /\ cf_output = Absent /\ cf_error = NoError /\ cf_trace = <<>>
PsIdle  == /\ ps_source = <<>> /\ ps_tokens = <<>> /\ ps_pc = "idle" /\ ps_result = <<>>
OneRun  == first_run = <<>>
IrIdle  == /\ fs = EmptyMap /\ ir_entry = <<>> /\ ir_pc = "idle" /\ ir_frames = <<>> /\ ir_stack = <<>>
           /\ ir_cache = EmptyMap /\ ir_result = NoResult /\ ir_reads = <<>>

\* _ProjectBuilder.__init__
InitCodegen ==
    /\ \E in \in CodegenInputs :
          /\ project = in.project
          /\ disk = in.disk
          /\ scale_svgs = in.scale_svgs
    /\ id_counter = 0
    /\ assets = EmptyMap
    /\ broadcast_ids = EmptyMap
    /\ minted = <<>>
    /\ ordered = <<>>
    /\ targets_json = <<>>
    /\ sprite_layer = 1
    /\ cg_pc = "collect"
    /\ cg_error = NoError
    /\ SemIdle /\ CfIdle /\ IrIdle /\ PsIdle /\ OneRun

\* build(): self.broadcast_ids = self._collect_broadcast_ids()
CgCollect ==
    /\ cg_pc = "collect"
    /\ LET b == CollectBroadcastIds(Builder(id_counter, broadcast_ids, minted, assets), project)
       IN  /\ id_counter' = b.ctr
           /\ broadcast_ids' = b.bids
           /\ minted' = b.minted
    /\ cg_pc' = "order"
    /\ UNCHANGED <<project, disk, scale_svgs, sprite_layer, ordered, targets_json, assets, cg_error>>
    /\ UNCHANGED <<semVars, cfVars, irVars, psVars, first_run>>

\* build(): ordered_targets, with the synthesized stage when none is declared
CgOrder ==
    /\ cg_pc = "order"
    /\ LET ordered_targets == StageFirst(project.targets)
       IN  ordered' = IF \E i \in 1..Len(ordered_targets) : ordered_targets[i].is_stage
                      THEN ordered_targets
                      ELSE <<SynthesizedStageTarget(ordered_targets)>> \o ordered_targets
    /\ cg_pc' = "emit"
    /\ UNCHANGED <<project, disk, scale_svgs, sprite_layer, id_counter, broadcast_ids, minted,
                   targets_json, assets, cg_error>>
    /\ UNCHANGED <<semVars, cfVars, irVars, psVars, first_run>>

\* build(): one iteration of `for target in ordered_targets`
CgBuildTarget ==
    /\ cg_pc = "emit"
    /\ Len(targets_json) < Len(ordered)
    /\ LET target == ordered[Len(targets_json) + 1]
           layer  == IF target.is_stage THEN 0 ELSE sprite_layer
           \* the assignments that follow the call, r being what the call returned
           Built(r) ==
               /\ id_counter' = r.b.ctr
               /\ broadcast_ids' = r.b.bids
               /\ minted' = r.b.minted
               /\ assets' = r.b.assets
               /\ IF r.b.err # NoError
                  THEN /\ cg_error' = r.b.err
                       /\ cg_pc' = "raised"
                       /\ UNCHANGED targets_json
                  ELSE /\ targets_json' = Append(targets_json, r.json)
                       /\ UNCHANGED <<cg_error, cg_pc>>
       IN  /\ sprite_layer' = IF target.is_stage THEN sprite_layer ELSE sprite_layer + 1
           /\ Built(BuilderCall("BuildTargetJson", <<Builder(id_counter, broadcast_ids, minted, assets),
                                                     disk, scale_svgs, target, layer>>))
    /\ UNCHANGED <<project, disk, scale_svgs, ordered>>
    /\ UNCHANGED <<semVars, cfVars, irVars, psVars, first_run>>

\* build(): return project_json, self.assets
CgReturn ==
    /\ cg_pc = "emit"
    /\ Len(targets_json) = Len(ordered)
    /\ cg_pc' = "returned"
    /\ UNCHANGED <<project, disk, scale_svgs, sprite_layer, id_counter, broadcast_ids, minted, ordered,
                   targets_json, assets, cg_error>>
    /\ UNCHANGED <<semVars, cfVars, irVars, psVars, first_run>>

NextCodegen == CgCollect \/ CgOrder \/ CgBuildTarget \/ CgReturn

SpecCodegen == InitCodegen /\ [][NextCodegen]_vars

-----------------------------------------------------------------------------
(* Properties of the emitted project.json *)

Returned == cg_pc = "returned"
Accepted == Analyze(project) = NoError

HatOpcodes == {"event_whenflagclicked", "event_whenthisspriteclicked", "event_whenbroadcastreceived"}

\* the block IDs an inputs map refers to
InputRefs(block) == {block.inputs[slot].ref : slot \in DOMAIN block.inputs} \ {Null}

WellFormedBlocks(blocks) ==
    \A id \in DOMAIN blocks :
        LET block == blocks[id] IN
        /\ block.next # Null => block.next \in DOMAIN blocks /\ blocks[block.next].parent = id
        /\ \A ref \in InputRefs(block) : ref \in DOMAIN blocks /\ blocks[ref].parent = id
        /\ IF block.opcode \in HatOpcodes \cup {"procedures_definition"}
           THEN block.parent = Null /\ block.topLevel
           ELSE block.parent # Null /\ block.parent \in DOMAIN blocks /\ ~block.topLevel

\* C1: in every returned project.json, in every target, a block's next and every block
\* its inputs refer to are keys of the same map whose parent is that block; hats and
\* procedure definitions have parent null and topLevel true, every other block has a
\* parent in the map and topLevel false.
C1_BlockGraphWellFormed ==
    Returned => \A t \in 1..Len(targets_json) : WellFormedBlocks(targets_json[t].blocks)

\* a returned project with a prototype that has an argument, a substack, a reporter
\* input and a chain of statements
C1_Witness ==
    /\ Returned
    /\ \E t \in 1..Len(targets_json) :
          LET blocks == targets_json[t].blocks IN
          /\ \E id \in DOMAIN blocks :
                blocks[id].opcode = "procedures_prototype" /\ InputRefs(blocks[id]) # {}
          /\ \E id \in DOMAIN blocks :
                /\ Slot("SUBSTACK") \in DOMAIN blocks[id].inputs
                /\ blocks[id].next # Null
                /\ ~blocks[id].topLevel
          /\ \E id \in DOMAIN blocks : blocks[id].opcode = "data_variable"

\* the messages of the AST: `when I receive` headers and broadcast statements at any
\* depth of repeat, forever and if/else, in scripts and procedure bodies
MessagesOfAst(proj) ==
    UNION { LET target == proj.targets[t] IN
            UNION { (IF target.scripts[k].event_type = "when_i_receive"
                     THEN {target.scripts[k].message} ELSE {})
                    \cup CollectMessagesFromStatementsAll(target.scripts[k].body)
                  : k \in 1..Len(target.scripts) }
            \cup
            UNION { CollectMessagesFromStatementsAll(target.procedures[k].body)
                  : k \in 1..Len(target.procedures) }
          : t \in 1..Len(proj.targets) }

\* C2: for an accepted project, the values of the stage's broadcasts map are exactly
\* the messages of the AST (headers and broadcast statements at any depth of repeat,
\* forever and if/else), and every sprite's broadcasts map is empty.
C2_StageBroadcastsAreAstMessages ==
    (Returned /\ Accepted) =>
        \A t \in 1..Len(targets_json) :
            IF targets_json[t].isStage
            THEN Range(targets_json[t].broadcasts) = MessagesOfAst(project)
            ELSE DOMAIN targets_json[t].broadcasts = {}

\* the <<message, ID>> pairs of the BROADCAST_OPTION fields of all targets
BroadcastOptions ==
    UNION { {targets_json[t].blocks[id].fields.BROADCAST_OPTION
               : id \in {i \in DOMAIN targets_json[t].blocks :
                           "BROADCAST_OPTION" \in DOMAIN targets_json[t].blocks[i].fields}}
          : t \in 1..Len(targets_json) }

\* C3: across all targets of one project.json two BROADCAST_OPTION fields carry the
\* same broadcast ID exactly when they carry the same message.
C3_BroadcastIdIffMessage ==
    \A f \in BroadcastOptions, g \in BroadcastOptions : (f[2] = g[2]) <=> (f[1] = g[1])

\* a returned project where a hat of one target and a broadcast of another share a
\* message, a second message is used, and one message sits inside a forever
C3_Witness ==
    /\ Returned
    /\ Len(targets_json) = 2
    /\ \E i \in DOMAIN targets_json[1].blocks, j \in DOMAIN targets_json[2].blocks :
          /\ targets_json[1].blocks[i].opcode = "event_whenbroadcastreceived"
          /\ targets_json[2].blocks[j].opcode = "event_broadcast_menu"
          /\ targets_json[1].blocks[i].fields.BROADCAST_OPTION
               = targets_json[2].blocks[j].fields.BROADCAST_OPTION
          /\ targets_json[2].blocks[targets_json[2].blocks[j].parent].parent # Null
          /\ targets_json[2].blocks[targets_json[2].blocks[targets_json[2].blocks[j].parent].parent].opcode
               = "control_forever"
    /\ Cardinality(BroadcastOptions) = 2

\* the position of an ID in the order of minting
MintedAt(id) == CHOOSE k \in 1..Len(minted) : minted[k] = id

\* C4: broadcast IDs are minted in the lexicographic order of their messages and
\* before any block, variable, list or argument ID, for all messages of the AST
\* (including those inside repeat, forever and if bodies).
C4_BroadcastIdsMintedFirstInOrder ==
    (Returned /\ Accepted) =>
        /\ \A m1 \in MessagesOfAst(project), m2 \in MessagesOfAst(project) :
              StrLess(m1, m2) =>
                  /\ m1 \in DOMAIN broadcast_ids /\ m2 \in DOMAIN broadcast_ids
                  /\ MintedAt(broadcast_ids[m1]) < MintedAt(broadcast_ids[m2])
                  /\ broadcast_ids[m1][2] < broadcast_ids[m2][2]
        /\ \A i \in 1..Len(minted), j \in 1..Len(minted) :
              (minted[i][1] = "broadcast" /\ minted[j][1] # "broadcast") => i < j

\* every key of the maps of one emitted target
KeysOf(json) ==
    DOMAIN json.blocks \cup DOMAIN json.variables \cup DOMAIN json.lists \cup DOMAIN json.broadcasts

NoRepeats(seq) == \A i \in 1..Len(seq), j \in 1..Len(seq) : seq[i] = seq[j] => i = j

\* C5: during one call every minted ID differs from every other minted ID; no key of
\* a blocks, variables or lists map is written twice; no ID is a key in the maps of
\* two targets.
C5_IdsDistinct ==
    /\ NoRepeats(minted)
    /\ \A t \in 1..Len(targets_json) :
          /\ NoRepeats(targets_json[t].blockOrder)
          /\ Cardinality(DOMAIN targets_json[t].variables) = Len(ordered[t].variables)
          /\ Cardinality(DOMAIN targets_json[t].lists) = Len(ordered[t].lists)
          /\ KeysOf(targets_json[t]) \subseteq Range(minted)
    /\ \A t \in 1..Len(targets_json), u \in 1..Len(targets_json) :
          t # u => KeysOf(targets_json[t]) \cap KeysOf(targets_json[u]) = {}

\* a returned two-target project with IDs of all five kinds
C5_Witness ==
    /\ Returned
    /\ Len(targets_json) = 2
    /\ {minted[k][1] : k \in 1..Len(minted)} = {"block", "var", "list", "arg", "broadcast"}
    /\ DOMAIN targets_json[1].broadcasts # {}
    /\ DOMAIN targets_json[2].blocks # {}

-----------------------------------------------------------------------------
(* semantic.analyze as a state machine *)

CgIdle ==
    /\ project = Project(<<>>) /\ disk = EmptyMap /\ scale_svgs = FALSE /\ sprite_layer = 1
    /\ cg_pc = "idle" /\ id_counter = 0 /\ broadcast_ids = EmptyMap /\ minted = <<>>
    /\ ordered = <<>> /\ targets_json = <<>> /\ assets = EmptyMap /\ cg_error = NoError

Name_greet == <<"g", "r", "e", "e", "t">>
Name_GREET == <<"G", "R", "E", "E", "T">>
Name_B == <<"B">>

Greet(body) == Procedure(Name_greet, <<>>, body)
Inc(body)   == Procedure(Name_inc, <<Name_n>>, body)

\* calls of a defined procedure (also in other letter case), with a wrong number of
\* arguments, and of an undefined one
Calls ==
    {ProcedureCallStmt(Name_greet, <<>>), ProcedureCallStmt(Name_GREET, <<>>),
     ProcedureCallStmt(Name_inc, <<One>>), ProcedureCallStmt(Name_inc, <<>>),
     ProcedureCallStmt(Name_q, <<>>)}

RECURSIVE WrappedCalls(_)
\* a call under at most d levels of repeat, forever and if/else
WrappedCalls(d) ==
    IF d = 0 THEN Calls
    ELSE LET W == WrappedCalls(d - 1)
         IN  W \cup {RepeatStmt(One, <<w>>) : w \in W} \cup {ForeverStmt(<<w>>) : w \in W}
               \cup {IfStmt(Cond, <<w>>, <<>>) : w \in W} \cup {IfStmt(Cond, <<Say_hi>>, <<w>>) : w \in W}

\* sprites whose calls come before, between and after the definitions, in a script or
\* in a procedure body, spread over lines or with each definition on one line
SemanticProjects ==
    LET script == {<<Greet(<<Say_hi>>), Inc(<<>>), WithBody(Flag, <<w>>)>> : w \in WrappedCalls(MaxDepth)}
                  \cup {<<WithBody(Flag, <<w>>), Greet(<<Say_hi>>), Inc(<<>>)>> : w \in WrappedCalls(MaxDepth)}
                  \cup {<<Greet(<<Say_hi>>), WithBody(Flag, <<w>>), Inc(<<>>)>> : w \in WrappedCalls(MaxDepth)}
        inside == {<<Greet(<<w>>), Inc(<<>>), Flag>> : w \in WrappedCalls(1)}
                  \cup {<<Inc(<<>>), Greet(<<w>>), Flag>> : w \in WrappedCalls(1)}
                  \cup {<<Inc(<<w>>), Greet(<<>>), Flag>> : w \in WrappedCalls(1)}
        Sprite(name, items, line, spread) == TargetAt(name, FALSE, <<>>, <<>>, <<>>, items, line, spread)
    IN  {Project(<<Sprite(Name_A, items, 1, spread).target>>)
           : items \in script \cup inside, spread \in BOOLEAN}
        \cup {Project(<<Sprite(Name_A, <<Greet(<<>>), Inc(<<>>)>>, 1, spread).target,
                        Sprite(Name_B, <<WithBody(Flag, <<w>>)>>,
                               Sprite(Name_A, <<Greet(<<>>), Inc(<<>>)>>, 1, spread).next, spread).target>>)
                : w \in WrappedCalls(1), spread \in BOOLEAN}

Name_a == <<"a">>
Name_m == <<"m">>
Name_stage == <<"s", "t", "a", "g", "e">>

\* name lists of declarations, procedures and parameters: distinct names, a repeated
\* name, and names that differ in letter case only
NameLists ==
    {<<>>, <<Name_v>>, <<Name_v, Name_q>>, <<Name_v, Name_V>>, <<Name_v, Name_v>>,
     <<Name_q, Name_v, Name_q>>}

\* one sprite with the given declarations and procedures and an empty script
DeclaringSprite(variables, lists, procedures) ==
    TargetAt(Name_A, FALSE, [i \in 1..Len(variables) |-> VariableDecl(variables[i])],
             [i \in 1..Len(lists) |-> ListDecl(lists[i])], <<>>, procedures \o <<Flag>>, 1, TRUE).target

\* projects whose names repeat or not: variables and lists of one sprite, its
\* procedures, the parameters of a procedure, and the names and kinds of two targets
NameProjects ==
    {Project(<<DeclaringSprite(vs, ls, <<Inc(<<>>)>>)>>) : vs \in NameLists, ls \in NameLists}
    \cup {Project(<<DeclaringSprite(<<Name_v>>, <<Name_v>>,
                                    [i \in 1..Len(ps) |-> Procedure(ps[i], <<Name_v>>, <<>>)])>>)
            : ps \in NameLists}
    \cup {Project(<<DeclaringSprite(<<Name_v>>, <<>>, <<Procedure(Name_inc, ps, <<>>), Procedure(Name_v, qs, <<>>)>>)>>)
            : ps \in NameLists, qs \in {<<>>, <<Name_v, Name_n>>, <<Name_n, Name_n>>}}
    \cup {Project(<<TargetAt(n1, s1, <<>>, <<>>, <<>>, <<Flag>>, 1, TRUE).target,
                    TargetAt(n2, s2, <<>>, <<>>, <<>>, <<Flag>>, 5, TRUE).target>>)
            : n1 \in {Name_A, Name_Stage}, n2 \in {Name_A, Name_a, Name_B, Name_Stage, Name_stage},
              s1 \in BOOLEAN, s2 \in BOOLEAN}

Name_s == <<"s">>
Name_M == <<"M">>
Name_l == <<"l">>

\* expressions that read variable x and name list l, at the top and inside an operator,
\* a reporter argument and a list reporter
ReadsOf(x, l) ==
    {VarExpr(x), Binary("+", One, VarExpr(x)), Unary("-", VarExpr(x)), PickRandomExpr(VarExpr(x), One),
     KeyPressedExpr(Binary("*", VarExpr(x), One)), ListItemExpr(l, VarExpr(x)),
     ListContainsExpr(l, Unary("not", VarExpr(x))), Binary("<", ListLengthExpr(l), VarExpr(x))}

\* statements that carry expression e and name list l, bare and inside repeat, forever and if
ReadingStmts(e, l) ==
    {SingleExprStmt("SayStmt", e), SetVarStmt(Name_v, e), RepeatStmt(e, <<>>),
     IfStmt(Cond, <<>>, <<SingleExprStmt("MoveStmt", e)>>), ForeverStmt(<<IfStmt(e, <<Say_hi>>, <<>>)>>),
     AddToListStmt(l, e), DeleteOfListStmt(l, e), InsertAtListStmt(l, One, e),
     ReplaceItemOfListStmt(l, e, One), RepeatStmt(One, <<DeleteAllOfListStmt(l)>>),
     ProcedureCallStmt(Name_inc, <<e>>)}

\* a stage with variable s and list M, and sprite A with variable v, list L and the
\* procedures inc (n) and greet (m); the statement under test is in the script, in inc
\* or in greet
ScopeProjects ==
    LET OnList(l) == UNION {ReadingStmts(e, l)
                               : e \in UNION {ReadsOf(x, l) : x \in {Name_v, Name_V, Name_n, Name_m, Name_s, Name_q}}}
        stmts == UNION {OnList(l) : l \in {Name_L, Name_l, Name_M}}
        items == {<<Procedure(Name_inc, <<Name_n>>, <<>>), Procedure(Name_greet, <<Name_m>>, <<>>),
                    WithBody(Flag, <<stmt>>)>> : stmt \in stmts}
                 \cup {<<Procedure(Name_inc, <<Name_n>>, <<stmt>>), Procedure(Name_greet, <<Name_m>>, <<>>),
                         Flag>> : stmt \in stmts}
                 \cup {<<Procedure(Name_inc, <<Name_n>>, <<>>), Procedure(Name_greet, <<Name_m>>, <<stmt>>),
                         Flag>> : stmt \in stmts}
        stage == TargetAt(Name_Stage, TRUE, <<VariableDecl(Name_s)>>, <<ListDecl(Name_M)>>, <<>>, <<Flag>>, 1, TRUE)
    IN  {Project(<<stage.target,
                   TargetAt(Name_A, FALSE, <<VariableDecl(Name_v)>>, <<ListDecl(Name_L)>>, <<>>,
                            it, stage.next, TRUE).target>>) : it \in items}

InitSemantic ==
    /\ sem_project \in SemanticProjects \cup NameProjects \cup StatementProjects \cup ScopeProjects
    /\ sem_pc = "start"
    /\ sem_result = NoError
    /\ CgIdle /\ CfIdle /\ IrIdle /\ PsIdle /\ OneRun

\* analyze(project): returns (accepted) or raises SemanticError (rejected)
SemAnalyze ==
    /\ sem_pc = "start"
    /\ sem_result' = Analyze(sem_project)
    /\ sem_pc' = IF Analyze(sem_project) = NoError THEN "accepted" ELSE "rejected"
    /\ UNCHANGED <<sem_project, cgVars, cfVars, irVars, psVars, first_run>>

NextSemantic == SemAnalyze

SpecSemantic == InitSemantic /\ [][NextSemantic]_vars

RECURSIVE CallsIn(_)
\* every procedure call statement of a statement list, at any depth
CallsIn(statements) ==
    UNION { LET stmt == statements[k] IN
            CASE stmt.type = "ProcedureCallStmt" -> {stmt}
              [] stmt.type \in {"RepeatStmt", "ForeverStmt"} -> CallsIn(stmt.body)
              [] stmt.type = "IfStmt" -> CallsIn(stmt.then_body) \cup CallsIn(stmt.else_body)
              [] OTHER -> {}
          : k \in 1..Len(statements) }

CallsOfTarget(target) ==
    UNION {CallsIn(target.scripts[k].body) : k \in 1..Len(target.scripts)}
    \cup UNION {CallsIn(target.procedures[k].body) : k \in 1..Len(target.procedures)}

\* the <<call, definition>> pairs of a project: a call and the procedure of the same
\* target it names
CallPairs(proj) ==
    UNION { UNION { {<<call, proj.targets[t].procedures[k]>>
                       : k \in {i \in 1..Len(proj.targets[t].procedures) :
                                  Lower(proj.targets[t].procedures[i].name) = Lower(call.name)}}
                  : call \in CallsOfTarget(proj.targets[t]) }
          : t \in 1..Len(proj.targets) }

\* C6: an accepted project has no call, at any depth, on a line before the line of the
\* `define` of its callee in the same target; and analyze raises the forward-reference
\* error only for such a call, so a call on the definition's line or later (a
\* recursive call included) is never rejected for its position.
C6_NoForwardCalls ==
    /\ sem_pc = "accepted" =>
          \A pair \in CallPairs(sem_project) : pair[1].line >= pair[2].line
    /\ (sem_pc = "rejected" /\ sem_result.what = "used before it is defined") =>
          \E pair \in CallPairs(sem_project) :
              /\ pair[1].line < pair[2].line
              /\ sem_result.line = pair[1].line
              /\ sem_result.ref = pair[2].line
    /\ (sem_pc = "rejected" /\ \A pair \in CallPairs(sem_project) : pair[1].line >= pair[2].line) =>
          sem_result.what # "used before it is defined"

\* an accepted project in which a procedure calls itself on the line of its own
\* `define`, from inside an if inside its body
C6_Witness ==
    /\ sem_pc = "accepted"
    /\ \E pair \in CallPairs(sem_project) :
          /\ pair[1].line = pair[2].line
          /\ pair[1] \in CallsIn(pair[2].body)
          /\ pair[1] \notin {pair[2].body[k] : k \in 1..Len(pair[2].body)}

-----------------------------------------------------------------------------
(* lexer.py.  The source text is a Python str: a sequence of characters.   *)
(* The characters the model knows are Ascii, tab, CR, LF and the byte      *)
(* order mark; index is the 0-based self.index.                            *)

\* the byte order mark U+FEFF, and the "\0" that _peek returns at the end of the source
BOM == "bom"
NoChar == "nul"

KEYWORDS ==
    {Str(k) : k \in {"add", "and", "all", "answer", "ask", "at", "backdrop", "bounce", "broadcast", "by",
                     "change", "clicked", "contains", "costume", "delete", "define", "direction", "edge",
                     "else", "end", "forever", "flag", "go", "hide", "i", "if", "in", "insert", "item",
                     "key", "length", "left", "list", "move", "mouse", "next", "not", "of", "on", "or",
                     "pick", "point", "pressed", "random", "receive", "replace", "repeat", "reset",
                     "right", "say", "set", "show", "size", "sprite", "stage", "steps", "stop", "then",
                     "think", "this", "timer", "to", "turn", "var", "wait", "when", "with", "x", "y"}}

SYMBOLS ==
    ("(" :> "LPAREN") @@ (")" :> "RPAREN") @@ ("[" :> "LBRACKET") @@ ("]" :> "RBRACKET") @@ ("," :> "COMMA")

Token(type, value, line, column) == [type |-> type, value |-> value, line |-> line, column |-> column]

\* str.isdigit, str.isalpha, str.isalnum on the model's characters
IsDigit(ch) == InSeq(Digits, ch)
IsAlpha(ch) == InSeq(UpperLetters, ch) \/ InSeq(LowerLetters, ch)
IsAlnum(ch) == IsAlpha(ch) \/ IsDigit(ch)

\* Lexer.__init__ ; tokens is the local list of tokenize, err the exception raised
Lexer(source) == [source |-> source, index |-> 0, line |-> 1, column |-> 1, tokens |-> <<>>, err |-> NoError]

LexerError(what, line, column) == Err("LexerError", what, line, column)

LexAtEnd(lx) == lx.index >= Len(lx.source)
LexPeek(lx)  == IF LexAtEnd(lx) THEN NoChar ELSE lx.source[lx.index + 1]

\* Lexer._advance : the character returned is LexPeek of the state before
LexAdvance(lx) ==
    IF lx.source[lx.index + 1] = "\n"
    THEN [lx EXCEPT !.index = @ + 1, !.line = @ + 1, !.column = 1]
    ELSE [lx EXCEPT !.index = @ + 1, !.column = @ + 1]

LexEmit(lx, token) == [lx EXCEPT !.tokens = Append(@, token)]
LexRaise(lx, what, line, column) == [lx EXCEPT !.err = LexerError(what, line, column)]

\* Lexer._read_operator
ReadOperator(lx) ==
    LET ch == LexPeek(lx)
        l1 == LexAdvance(lx)
    IN  IF ch \in {"=", "!", "<", ">"} /\ LexPeek(l1) = "="
        THEN LexEmit(LexAdvance(l1), Token("OP", <<ch, "=">>, lx.line, lx.column))
        ELSE LexEmit(l1, Token("OP", <<ch>>, lx.line, lx.column))

RECURSIVE ReadIdentifierLoop(_, _)
\* the while loop of _read_identifier
ReadIdentifierLoop(lx, chars) ==
    IF LexAtEnd(lx) THEN [lx |-> lx, chars |-> chars]
    ELSE IF IsAlnum(LexPeek(lx)) \/ LexPeek(lx) \in {"_", "?"}
    THEN ReadIdentifierLoop(LexAdvance(lx), Append(chars, LexPeek(lx)))
    ELSE [lx |-> lx, chars |-> chars]

\* _read_identifier : the faulty variant that lower-cases identifiers as it does keywords
ReadIdentifierLowered(lx) ==
    LET r == ReadIdentifierLoop(LexAdvance(lx), <<LexPeek(lx)>>)
        lowered == Lower(r.chars)
    IN  LexEmit(r.lx, Token(IF lowered \in KEYWORDS THEN "KEYWORD" ELSE "IDENT", lowered, lx.line, lx.column))

\* Lexer._read_identifier
ReadIdentifier(lx) ==
    LET r == ReadIdentifierLoop(LexAdvance(lx), <<LexPeek(lx)>>)
        value   == r.chars
        lowered == Lower(value)
    IN  IF lowered \in KEYWORDS
        THEN LexEmit(r.lx, Token("KEYWORD", lowered, lx.line, lx.column))
        ELSE LexEmit(r.lx, Token("IDENT", value, lx.line, lx.column))

RECURSIVE ReadNumberLoop(_, _, _)
\* the while loop of _read_number
ReadNumberLoop(lx, chars, seen_dot) ==
    IF LexAtEnd(lx) THEN [lx |-> lx, chars |-> chars]
    ELSE IF IsDigit(LexPeek(lx))
    THEN ReadNumberLoop(LexAdvance(lx), Append(chars, LexPeek(lx)), seen_dot)
    ELSE IF LexPeek(lx) = "." /\ ~seen_dot
    THEN ReadNumberLoop(LexAdvance(lx), Append(chars, "."), TRUE)
    ELSE [lx |-> lx, chars |-> chars]

\* Lexer._read_number
ReadNumber(lx) ==
    LET r == ReadNumberLoop(LexAdvance(lx), <<LexPeek(lx)>>, FALSE)
    IN  LexEmit(r.lx, Token("NUMBER", r.chars, lx.line, lx.column))

\* the `escapes` dict of _read_string, with its default
Escape(esc) ==
    IF esc = "n" THEN "\n" ELSE IF esc = "r" THEN "\r" ELSE IF esc = "t" THEN "\t" ELSE esc

RECURSIVE ReadStringLoop(_, _, _, _)
\* the while loop of _read_string and the raise after it
ReadStringLoop(lx, chars, line, col) ==
    IF LexAtEnd(lx) THEN LexRaise(lx, "Unterminated string literal", line, col)
    ELSE LET ch == LexPeek(lx)
             l1 == LexAdvance(lx)
         IN  IF ch = "\"" THEN LexEmit(l1, Token("STRING", chars, line, col))
             ELSE IF ch = "\\"
             THEN IF LexAtEnd(l1) THEN LexRaise(l1, "Unterminated string literal", line, col)
                  ELSE ReadStringLoop(LexAdvance(l1), Append(chars, Escape(LexPeek(l1))), line, col)
             ELSE IF ch = "\n" THEN LexRaise(l1, "Unterminated string literal", line, col)
             ELSE ReadStringLoop(l1, Append(chars, ch), line, col)

\* Lexer._read_string
ReadString(lx) == ReadStringLoop(LexAdvance(lx), <<>>, lx.line, lx.column)

RECURSIVE SkipComment(_)
\* Lexer._skip_comment
SkipComment(lx) ==
    IF ~LexAtEnd(lx) /\ LexPeek(lx) # "\n" THEN SkipComment(LexAdvance(lx)) ELSE lx

\* one iteration of the while loop of tokenize
TokenizeStep(lx) ==
    LET ch == LexPeek(lx) IN
    IF ch = BOM THEN LexAdvance(lx)
    ELSE IF ch \in {" ", "\t", "\r"} THEN LexAdvance(lx)
    ELSE IF ch = "\n" THEN LexAdvance(LexEmit(lx, Token("NEWLINE", <<"\n">>, lx.line, lx.column)))
    ELSE IF ch = "#" THEN SkipComment(lx)
    ELSE IF ch = "\"" THEN ReadString(lx)
    ELSE IF IsDigit(ch) THEN ReadNumber(lx)
    ELSE IF IsAlpha(ch) \/ ch = "_" THEN ReadIdentifier(lx)
    ELSE IF ch \in DOMAIN SYMBOLS THEN LexEmit(LexAdvance(lx), Token(SYMBOLS[ch], <<ch>>, lx.line, lx.column))
    ELSE IF ch \in {"+", "-", "*", "/", "%"} THEN LexEmit(LexAdvance(lx), Token("OP", <<ch>>, lx.line, lx.column))
    ELSE IF ch \in {"=", "!", "<", ">"} THEN ReadOperator(lx)
    ELSE LexRaise(lx, "Unexpected character", lx.line, lx.column)

RECURSIVE TokenizeLoop(_)
\* the while loop of tokenize, until the end of the source or a raise
TokenizeLoop(lx) ==
    IF LexAtEnd(lx) \/ lx.err # NoError THEN lx ELSE TokenizeLoop(TokenizeStep(lx))

\* Lexer.tokenize : [tokens, err]
Tokenize(source) ==
    LET \* after the loop, lx being the lexer as the loop left it
        Finish(lx) ==
            IF lx.err # NoError THEN [tokens |-> <<>>, err |-> lx.err]
            ELSE [tokens |-> Append(lx.tokens, Token("EOF", <<>>, lx.line, lx.column)), err |-> NoError]
    IN  Finish(TokenizeLoop(Lexer(source)))

-----------------------------------------------------------------------------
(* parser.py: class Parser.  The parser's state is p = [tokens, index, err] *)
(* with the 0-based self.index; err is the exception raised, after which    *)
(* nothing more is consumed.  A method that returns a node yields           *)
(* [p, node], one that returns a str yields [p, name].                      *)

Parser(tokens) == [tokens |-> tokens, index |-> 0, err |-> NoError]
ParseError(what, line, column) == Err("ParseError", what, line, column)

NoNode == Node("None")
Fail(p) == [p |-> p, node |-> NoNode]
\* a node with the position of the token it starts at
At(node, token) == [node EXCEPT !.line = token.line, !.column = token.column]

Current(p)  == p.tokens[p.index + 1]
Peek(p)     == IF p.index + 1 >= Len(p.tokens) THEN p.tokens[Len(p.tokens)] ELSE p.tokens[p.index + 2]
Previous(p) == p.tokens[p.index]
Advance(p)  == [p EXCEPT !.index = @ + 1]
AtEnd(p)    == Current(p).type = "EOF"
CheckType(p, token_type) == Current(p).type = token_type
CheckKeyword(p, value)   == Current(p).type = "KEYWORD" /\ Current(p).value = Str(value)

\* Parser._error_here
ErrorHere(p, message) ==
    IF p.err # NoError THEN p
    ELSE [p EXCEPT !.err = ParseError(message, Current(p).line, Current(p).column)]

\* Parser._consume_keyword and Parser._consume_type : the token returned is Current(p)
ConsumeKeyword(p, value, message) ==
    IF p.err # NoError THEN p
    ELSE IF CheckKeyword(p, value) THEN Advance(p) ELSE ErrorHere(p, message)
ConsumeType(p, token_type, message) ==
    IF p.err # NoError THEN p
    ELSE IF CheckType(p, token_type) THEN Advance(p) ELSE ErrorHere(p, message)

RECURSIVE SkipNewlines(_)
\* Parser._skip_newlines
SkipNewlines(p) ==
    IF p.err = NoError /\ CheckType(p, "NEWLINE") THEN SkipNewlines(Advance(p)) ELSE p

\* Parser._word_from_token, _current_word, _word_at_offset ; None is NoneStr
WordFromToken(token) ==
    IF token.type = "KEYWORD" THEN token.value
    ELSE IF token.type = "IDENT" THEN Lower(token.value) ELSE NoneStr
CurrentWord(p) == WordFromToken(Current(p))
WordAtOffset(p, offset) ==
    IF p.index + offset >= Len(p.tokens) THEN NoneStr ELSE WordFromToken(p.tokens[p.index + offset + 1])

\* Parser._looks_like_if_on_edge_bounce
LooksLikeIfOnEdgeBounce(p) ==
    /\ WordAtOffset(p, 0) = Str("if")
    /\ WordAtOffset(p, 1) = Str("on")
    /\ WordAtOffset(p, 2) = Str("edge")
    /\ WordAtOffset(p, 3) = Str("bounce")

RECURSIVE SkipNewlinesFrom(_, _)
\* the `while idx < len(self.tokens) and self.tokens[idx].type == "NEWLINE"` loop
SkipNewlinesFrom(tokens, idx) ==
    IF idx < Len(tokens) /\ tokens[idx + 1].type = "NEWLINE" THEN SkipNewlinesFrom(tokens, idx + 1) ELSE idx

\* _looks_like_event_end : the faulty variant that looks at the very next token only
LooksLikeEventEndNoSkip(p) ==
    LET idx == p.index + 1
    IN  IF idx >= Len(p.tokens) THEN FALSE
        ELSE IF p.tokens[idx + 1].type = "EOF" THEN FALSE
        ELSE IF p.tokens[idx + 1].type = "KEYWORD" /\ p.tokens[idx + 1].value \in {Str("sprite"), Str("stage")}
        THEN FALSE
        ELSE TRUE

\* Parser._looks_like_event_end
LooksLikeEventEnd(p) ==
    LET idx == SkipNewlinesFrom(p.tokens, p.index + 1)
    IN  IF idx >= Len(p.tokens) THEN FALSE
        ELSE IF p.tokens[idx + 1].type = "EOF" THEN FALSE
        ELSE IF p.tokens[idx + 1].type = "KEYWORD" /\ p.tokens[idx + 1].value \in {Str("sprite"), Str("stage")}
        THEN FALSE
        ELSE TRUE

RECURSIVE JoinValues(_, _)
\* " ".join(t.value for t in tokens[k:])
JoinValues(tokens, k) ==
    IF k > Len(tokens) THEN <<>>
    ELSE IF k = Len(tokens) THEN tokens[k].value
    ELSE tokens[k].value \o <<" ">> \o JoinValues(tokens, k + 1)

Whitespace == {" ", "\t", "\n", "\r"}
RECURSIVE Strip(_)
\* str.strip()
Strip(s) ==
    IF s = <<>> THEN s
    ELSE IF Head(s) \in Whitespace THEN Strip(Tail(s))
    ELSE IF s[Len(s)] \in Whitespace THEN Strip(SubSeq(s, 1, Len(s) - 1))
    ELSE s

RECURSIVE DecimalValue(_, _)
\* int(digits), most significant digit first
DecimalValue(digits, acc) ==
    IF digits = <<>> THEN acc
    ELSE DecimalValue(Tail(digits), 10 * acc + (IndexIn(Digits, Head(digits)) - 1))

RECURSIVE StripZeros(_)
StripZeros(digits) ==
    IF digits # <<>> /\ digits[Len(digits)] = "0" THEN StripZeros(SubSeq(digits, 1, Len(digits) - 1)) ELSE digits

\* float(text) of a NUMBER token: a whole number is that number, any other value is
\* its whole part with its fraction digits
Float(text) ==
    LET dot   == IF InSeq(text, ".") THEN IndexIn(text, ".") ELSE Len(text) + 1
        whole == DecimalValue(SubSeq(text, 1, dot - 1), 0)
        frac  == StripZeros(SubSeq(text, dot + 1, Len(text)))
    IN  IF frac = <<>> THEN whole ELSE [whole |-> whole, frac |-> frac]

RECURSIVE ParserCall(_, _)

\* Parser._parse_name_token
ParseNameToken(p) ==
    IF p.err # NoError THEN [p |-> p, name |-> NoneStr]
    ELSE IF Current(p).type \in {"IDENT", "STRING"} THEN [p |-> Advance(p), name |-> Current(p).value]
    ELSE [p |-> ErrorHere(p, "Expected name."), name |-> NoneStr]

\* Parser._parse_sprite_name_token
ParseSpriteNameToken(p) ==
    IF p.err = NoError /\ CheckKeyword(p, "stage") THEN [p |-> Advance(p), name |-> Chars_Stage]
    ELSE ParserCall("ParseNameToken", <<p>>)

\* the while loop of _parse_bracket_tokens
ParseBracketTokensLoop(p, tokens) ==
    IF p.err # NoError \/ AtEnd(p) \/ CheckType(p, "RBRACKET") THEN [p |-> p, tokens |-> tokens]
    ELSE IF CheckType(p, "NEWLINE")
    THEN [p |-> ErrorHere(p, "Unexpected newline in bracket expression."), tokens |-> tokens]
    ELSE ParserCall("ParseBracketTokensLoop", <<Advance(p), Append(tokens, Current(p))>>)

\* Parser._parse_bracket_tokens
ParseBracketTokens(p) ==
    LET r == ParserCall("ParseBracketTokensLoop", <<ConsumeType(p, "LBRACKET", "Expected '['."), <<>>>>)
    IN  [p |-> ConsumeType(r.p, "RBRACKET", "Expected ']'."), tokens |-> r.tokens]

\* Parser._parse_bracket_text
ParseBracketText(p) ==
    LET r == ParserCall("ParseBracketTokens", <<p>>)
    IN  [p |-> r.p, name |-> Strip(JoinValues(r.tokens, 1))]

\* Parser._parse_variable_field_name
ParseVariableFieldName(p) ==
    LET r == ParserCall("ParseBracketTokens", <<p>>)
        skip == r.tokens # <<>> /\ Lower(r.tokens[1].value) = Str("var")
        name == Strip(JoinValues(r.tokens, IF skip THEN 2 ELSE 1))
    IN  IF r.p.err # NoError THEN [p |-> r.p, name |-> NoneStr]
        ELSE IF r.tokens = <<>> \/ name = <<>>
        THEN [p |-> ErrorHere(r.p, "Variable name cannot be empty."), name |-> NoneStr]
        ELSE [p |-> r.p, name |-> name]

\* Parser._parse_list_field_name
ParseListFieldName(p) ==
    LET r == ParserCall("ParseBracketTokens", <<p>>)
        name == Strip(JoinValues(r.tokens, 1))
    IN  IF r.p.err # NoError THEN [p |-> r.p, name |-> NoneStr]
        ELSE IF r.tokens = <<>> \/ name = <<>>
        THEN [p |-> ErrorHere(r.p, "List name cannot be empty."), name |-> NoneStr]
        ELSE [p |-> r.p, name |-> name]

\* _EXPR_PRECEDENCE : the faulty variant with the additive operators on the level of the
\* multiplicative ones
EXPR_PRECEDENCE_OneArithmeticLevel ==
    ("or" :> 1) @@ ("and" :> 2) @@ ("=" :> 3) @@ ("==" :> 3) @@ ("!=" :> 3) @@ ("<" :> 3) @@ ("<=" :> 3)
    @@ (">" :> 3) @@ (">=" :> 3) @@ ("+" :> 5) @@ ("-" :> 5) @@ ("*" :> 5) @@ ("/" :> 5) @@ ("%" :> 5)

\* Parser._EXPR_PRECEDENCE
EXPR_PRECEDENCE ==
    ("or" :> 1) @@ ("and" :> 2) @@ ("=" :> 3) @@ ("==" :> 3) @@ ("!=" :> 3) @@ ("<" :> 3) @@ ("<=" :> 3)
    @@ (">" :> 3) @@ (">=" :> 3) @@ ("+" :> 4) @@ ("-" :> 4) @@ ("*" :> 5) @@ ("/" :> 5) @@ ("%" :> 5)

\* Parser._as_operator ; None is "None"
AsOperator(token) ==
    IF token.type = "OP" THEN Text(token.value)
    ELSE IF token.type = "KEYWORD" /\ token.value \in {Str("and"), Str("or")} THEN Text(token.value)
    ELSE "None"


\* Parser._parse_wrapped_expression
ParseWrappedExpression(p) ==
    LET e == ParserCall("ParseExpression", <<ConsumeType(p, "LPAREN", "Expected '('."), {"RPAREN"}, 1>>)
    IN  [p |-> ConsumeType(e.p, "RPAREN", "Expected ')' after expression."), node |-> e.node]

\* Parser._parse_expression
ParseExpression(p, stop_types, min_precedence) ==
    LET left == ParserCall("ParseUnary", <<p, stop_types>>)
    IN  ParserCall("ParseExpressionLoop", <<left.p, left.node, stop_types, min_precedence>>)

\* the `while True` loop of _parse_expression
ParseExpressionLoop(p, left, stop_types, min_precedence) ==
    IF p.err # NoError THEN [p |-> p, node |-> left]
    ELSE LET token == Current(p)
             op    == AsOperator(token)
         IN  IF \/ token.type \in stop_types
                \/ op = "None"
                \/ op \notin DOMAIN EXPR_PRECEDENCE
                \/ EXPR_PRECEDENCE[op] < min_precedence
             THEN [p |-> p, node |-> left]
             ELSE LET right == ParserCall("ParseExpression", <<Advance(p), stop_types, EXPR_PRECEDENCE[op] + 1>>)
                  IN  ParserCall("ParseExpressionLoop", <<right.p, BinaryExpr(token.line, token.column, op, left, right.node),
                                          stop_types, min_precedence>>)

\* Parser._parse_unary
ParseUnary(p, stop_types) ==
    IF p.err # NoError THEN Fail(p)
    ELSE LET token == Current(p) IN
         IF token.type = "OP" /\ token.value = <<"-">>
         THEN LET operand == ParserCall("ParseUnary", <<Advance(p), stop_types>>)
              IN  [p |-> operand.p, node |-> UnaryExpr(token.line, token.column, "-", operand.node)]
         ELSE IF token.type = "KEYWORD" /\ token.value = Str("not")
         THEN LET operand == ParserCall("ParseUnary", <<Advance(p), stop_types>>)
              IN  [p |-> operand.p, node |-> UnaryExpr(token.line, token.column, "not", operand.node)]
         ELSE ParserCall("ParsePrimary", <<p, stop_types>>)

\* Parser._parse_pick_random_expr
ParsePickRandomExpr(p) ==
    LET start == Current(p)
        low   == ParserCall("ParseWrappedExpression", <<ConsumeKeyword(ConsumeKeyword(p, "pick", "Expected 'pick'."),
                                                       "random", "Expected 'random' after 'pick'.")>>)
        high  == ParserCall("ParseWrappedExpression", <<ConsumeKeyword(low.p, "to", "Expected 'to' in 'pick random ... to ...'.")>>)
    IN  [p |-> high.p, node |-> At(PickRandomExpr(low.node, high.node), start)]

\* Parser._parse_item_of_list_expr
ParseItemOfListExpr(p) ==
    LET start == Current(p)
        index == ParserCall("ParseWrappedExpression", <<ConsumeKeyword(p, "item", "Expected 'item'.")>>)
        list_name == ParserCall("ParseListFieldName", <<ConsumeKeyword(index.p, "of", "Expected 'of' in 'item (...) of [list]'.")>>)
    IN  [p |-> list_name.p, node |-> At(ListItemExpr(list_name.name, index.node), start)]

\* Parser._parse_length_expr
ParseLengthExpr(p) ==
    LET start == Current(p)
        p2 == ConsumeKeyword(ConsumeKeyword(p, "length", "Expected 'length'."),
                             "of", "Expected 'of' in 'length of ...'.")
    IN  IF p2.err # NoError THEN Fail(p2)
        ELSE IF CheckType(p2, "LBRACKET")
        THEN LET list_name == ParserCall("ParseListFieldName", <<p2>>)
             IN  [p |-> list_name.p, node |-> At(ListLengthExpr(list_name.name), start)]
        ELSE Fail(ErrorHere(p2, "Expected list reference after 'length of'."))

\* Parser._parse_key_pressed_expr
ParseKeyPressedExpr(p) ==
    LET start == Current(p)
        key_expr == ParserCall("ParseWrappedExpression", <<ConsumeKeyword(p, "key", "Expected 'key'.")>>)
    IN  IF key_expr.p.err # NoError THEN Fail(key_expr.p)
        ELSE IF CurrentWord(key_expr.p) \in {Str("pressed"), Str("pressed?")}
        THEN [p |-> Advance(key_expr.p), node |-> At(KeyPressedExpr(key_expr.node), start)]
        ELSE Fail(ErrorHere(key_expr.p, "Expected 'pressed?' in key sensing expression."))

\* Parser._parse_primary
ParsePrimary(p, stop_types) ==
    IF p.err # NoError THEN Fail(p)
    ELSE LET token == Current(p) IN
         IF token.type \in stop_types THEN Fail(ErrorHere(p, "Expected expression."))
         ELSE IF CheckKeyword(p, "pick") THEN ParserCall("ParsePickRandomExpr", <<p>>)
         ELSE IF CheckKeyword(p, "item") THEN ParserCall("ParseItemOfListExpr", <<p>>)
         ELSE IF CheckKeyword(p, "length") THEN ParserCall("ParseLengthExpr", <<p>>)
         ELSE IF CheckKeyword(p, "key") THEN ParserCall("ParseKeyPressedExpr", <<p>>)
         ELSE IF CheckKeyword(p, "answer")
         THEN [p |-> Advance(p), node |-> At(BuiltinReporterExpr("answer"), token)]
         ELSE IF CheckKeyword(p, "mouse")
         THEN IF CheckKeyword(Advance(p), "x")
              THEN [p |-> Advance(Advance(p)), node |-> At(BuiltinReporterExpr("mouse_x"), token)]
              ELSE IF CheckKeyword(Advance(p), "y")
              THEN [p |-> Advance(Advance(p)), node |-> At(BuiltinReporterExpr("mouse_y"), token)]
              ELSE Fail(ErrorHere(Advance(p), "Expected 'x' or 'y' after 'mouse'."))
         ELSE IF CheckKeyword(p, "timer")
         THEN [p |-> Advance(p), node |-> At(BuiltinReporterExpr("timer"), token)]
         ELSE IF token.type = "NUMBER"
         THEN [p |-> Advance(p), node |-> At(NumberExpr(Float(token.value)), token)]
         ELSE IF token.type = "STRING"
         THEN [p |-> Advance(p), node |-> At(StringExpr(token.value), token)]
         ELSE IF token.type = "IDENT"
         THEN IF Peek(p).type = "LPAREN"
              THEN Fail([p EXCEPT !.err = ParseError("Procedure call cannot appear inside an expression",
                                                     token.line, token.column)])
              ELSE [p |-> Advance(p), node |-> At(VarExpr(token.value), token)]
         ELSE IF token.type = "LPAREN"
         THEN LET expr == ParserCall("ParseExpression", <<Advance(p), {"RPAREN"}, 1>>)
              IN  [p |-> ConsumeType(expr.p, "RPAREN", "Expected ')' after grouped expression."),
                   node |-> expr.node]
         ELSE IF token.type = "LBRACKET"
         THEN LET name == ParserCall("ParseVariableFieldName", <<p>>)
              IN  IF name.p.err # NoError THEN Fail(name.p)
                  ELSE IF CheckKeyword(name.p, "contains")
                  THEN LET item == ParserCall("ParseWrappedExpression", <<Advance(name.p)>>)
                       IN  [p |-> item.p, node |-> At(ListContainsExpr(name.name, item.node), token)]
                  ELSE [p |-> name.p, node |-> At(VarExpr(name.name), token)]
         ELSE Fail(ErrorHere(p, "Expected expression."))

\* Parser._parse_expression_from_tokens : a second Parser over tokens + [EOF]
ParseExpressionFromTokens(tokens) ==
    LET last == tokens[Len(tokens)]
        synthetic == Append(tokens, Token("EOF", <<>>, last.line, last.column))
        expr == ParserCall("ParseExpression", <<Parser(synthetic), {"EOF"}, 1>>)
    IN  [err  |-> ConsumeType(expr.p, "EOF", "Unexpected trailing tokens in expression.").err,
         node |-> expr.node]

\* Parser._collect_tokens_until_keyword : the loop from the current token on, then the
\* balance check
CollectTokensUntilKeyword(p, keyword, out, depth_paren, depth_bracket) ==
    IF AtEnd(p) \/ (CheckKeyword(p, keyword) /\ depth_paren = 0 /\ depth_bracket = 0)
    THEN IF depth_paren # 0 \/ depth_bracket # 0
         THEN [p |-> ErrorHere(p, "Unbalanced delimiters while reading condition."), tokens |-> out]
         ELSE [p |-> p, tokens |-> out]
    ELSE LET type == Current(p).type
         IN  ParserCall("CollectTokensUntilKeyword", <<Advance(p), keyword, Append(out, Current(p)),
                 depth_paren + (IF type = "LPAREN" THEN 1 ELSE IF type = "RPAREN" THEN -1 ELSE 0),
                 depth_bracket + (IF type = "LBRACKET" THEN 1 ELSE IF type = "RBRACKET" THEN -1 ELSE 0)>>)

\* `start = consume_keyword(k); expr = parse_wrapped_expression()` and the node built
\* from them: the body shared by the say, think, wait, stop, ask, turn and point
\* statement parsers and by the x, y and size forms of set and change
ParseExprStmt(p, start, type) ==
    LET expr == ParserCall("ParseWrappedExpression", <<p>>)
    IN  [p |-> expr.p, node |-> At(SingleExprStmt(type, expr.node), start)]

\* Parser._parse_broadcast_stmt
ParseBroadcastStmt(p) ==
    LET start   == Current(p)
        message == ParserCall("ParseBracketText", <<ConsumeKeyword(p, "broadcast", "Expected 'broadcast'.")>>)
    IN  IF message.p.err = NoError /\ message.name = <<>>
        THEN Fail(ErrorHere(message.p, "Broadcast message cannot be empty."))
        ELSE [p |-> message.p, node |-> At(BroadcastStmt(message.name), start)]

\* Parser._parse_set_stmt
ParseSetStmt(p) ==
    LET start == Current(p)
        p1 == ConsumeKeyword(p, "set", "Expected 'set'.")
    IN  IF p1.err # NoError THEN Fail(p1)
        ELSE IF CheckKeyword(p1, "x")
        THEN ParserCall("ParseExprStmt", <<ConsumeKeyword(Advance(p1), "to", "Expected 'to' in 'set x to'."), start, "SetXStmt">>)
        ELSE IF CheckKeyword(p1, "y")
        THEN ParserCall("ParseExprStmt", <<ConsumeKeyword(Advance(p1), "to", "Expected 'to' in 'set y to'."), start, "SetYStmt">>)
        ELSE IF CheckKeyword(p1, "size")
        THEN ParserCall("ParseExprStmt", <<ConsumeKeyword(Advance(p1), "to", "Expected 'to' in 'set size to'."), start,
                           "SetSizeToStmt">>)
        ELSE LET var_name == ParserCall("ParseVariableFieldName", <<p1>>)
                 value == ParserCall("ParseWrappedExpression", <<ConsumeKeyword(var_name.p, "to", "Expected 'to' in set statement.")>>)
             IN  [p |-> value.p, node |-> At(SetVarStmt(var_name.name, value.node), start)]

\* Parser._parse_change_stmt
ParseChangeStmt(p) ==
    LET start == Current(p)
        p1 == ConsumeKeyword(p, "change", "Expected 'change'.")
    IN  IF p1.err # NoError THEN Fail(p1)
        ELSE IF CheckKeyword(p1, "x")
        THEN ParserCall("ParseExprStmt", <<ConsumeKeyword(Advance(p1), "by", "Expected 'by' in 'change x by'."), start,
                           "ChangeXByStmt">>)
        ELSE IF CheckKeyword(p1, "y")
        THEN ParserCall("ParseExprStmt", <<ConsumeKeyword(Advance(p1), "by", "Expected 'by' in 'change y by'."), start,
                           "ChangeYByStmt">>)
        ELSE IF CheckKeyword(p1, "size")
        THEN ParserCall("ParseExprStmt", <<ConsumeKeyword(Advance(p1), "by", "Expected 'by' in 'change size by'."), start,
                           "ChangeSizeByStmt">>)
        ELSE LET var_name == ParserCall("ParseVariableFieldName", <<p1>>)
                 value == ParserCall("ParseWrappedExpression", <<ConsumeKeyword(var_name.p, "by", "Expected 'by' in change statement.")>>)
             IN  [p |-> value.p, node |-> At(ChangeVarStmt(var_name.name, value.node), start)]

\* Parser._parse_move_stmt
ParseMoveStmt(p) ==
    LET r == ParserCall("ParseExprStmt", <<ConsumeKeyword(p, "move", "Expected 'move'."), Current(p), "MoveStmt">>)
    IN  IF r.p.err = NoError /\ CheckKeyword(r.p, "steps") THEN [p |-> Advance(r.p), node |-> r.node] ELSE r

\* Parser._parse_if_on_edge_bounce_stmt
ParseIfOnEdgeBounceStmt(p) ==
    [p |-> ConsumeKeyword(ConsumeKeyword(ConsumeKeyword(ConsumeKeyword(p,
               "if", "Expected 'if'."),
               "on", "Expected 'on' in 'if on edge bounce'."),
               "edge", "Expected 'edge' in 'if on edge bounce'."),
               "bounce", "Expected 'bounce' in 'if on edge bounce'."),
     node |-> At(NoExprStmt("IfOnEdgeBounceStmt"), Current(p))]

\* Parser._parse_turn_stmt
ParseTurnStmt(p) ==
    LET start == Current(p)
        p1 == ConsumeKeyword(p, "turn", "Expected 'turn'.")
    IN  IF p1.err # NoError THEN Fail(p1)
        ELSE IF CheckKeyword(p1, "right") THEN ParserCall("ParseExprStmt", <<Advance(p1), start, "TurnRightStmt">>)
        ELSE IF CheckKeyword(p1, "left") THEN ParserCall("ParseExprStmt", <<Advance(p1), start, "TurnLeftStmt">>)
        ELSE Fail(ErrorHere(p1, "Expected 'right' or 'left' after 'turn'."))

\* Parser._parse_go_stmt
ParseGoStmt(p) ==
    LET start == Current(p)
        p1 == ConsumeKeyword(ConsumeKeyword(ConsumeKeyword(p, "go", "Expected 'go'."),
                  "to", "Expected 'to' after 'go'."), "x", "Expected 'x' in 'go to x ... y ...'.")
        x_expr == ParserCall("ParseWrappedExpression", <<p1>>)
        y_expr == ParserCall("ParseWrappedExpression", <<ConsumeKeyword(x_expr.p, "y", "Expected 'y' in 'go to x ... y ...'.")>>)
    IN  [p |-> y_expr.p, node |-> At(GoToXYStmt(x_expr.node, y_expr.node), start)]

\* Parser._parse_point_stmt
ParsePointStmt(p) ==
    ParserCall("ParseExprStmt", <<ConsumeKeyword(ConsumeKeyword(ConsumeKeyword(p, "point", "Expected 'point'."),
                      "in", "Expected 'in' after 'point'."),
                      "direction", "Expected 'direction' after 'point in'."),
                  Current(p), "PointInDirectionStmt">>)

\* Parser._parse_next_stmt
ParseNextStmt(p) ==
    LET start == Current(p)
        p1 == ConsumeKeyword(p, "next", "Expected 'next'.")
    IN  IF p1.err # NoError THEN Fail(p1)
        ELSE IF CheckKeyword(p1, "costume")
        THEN [p |-> Advance(p1), node |-> At(NoExprStmt("NextCostumeStmt"), start)]
        ELSE IF CheckKeyword(p1, "backdrop")
        THEN [p |-> Advance(p1), node |-> At(NoExprStmt("NextBackdropStmt"), start)]
        ELSE Fail(ErrorHere(p1, "Expected 'costume' or 'backdrop' after 'next'."))

\* Parser._parse_reset_stmt
ParseResetStmt(p) ==
    [p |-> ConsumeKeyword(ConsumeKeyword(p, "reset", "Expected 'reset'."), "timer", "Expected 'timer' after 'reset'."),
     node |-> At(NoExprStmt("ResetTimerStmt"), Current(p))]

\* Parser._parse_add_to_list_stmt
ParseAddToListStmt(p) ==
    LET start == Current(p)
        item  == ParserCall("ParseWrappedExpression", <<ConsumeKeyword(p, "add", "Expected 'add'.")>>)
        list_name == ParserCall("ParseListFieldName", <<ConsumeKeyword(item.p, "to", "Expected 'to' in list add statement.")>>)
    IN  [p |-> list_name.p, node |-> At(AddToListStmt(list_name.name, item.node), start)]

\* Parser._parse_delete_list_stmt
ParseDeleteListStmt(p) ==
    LET start == Current(p)
        p1 == ConsumeKeyword(p, "delete", "Expected 'delete'.")
    IN  IF p1.err # NoError THEN Fail(p1)
        ELSE IF CheckKeyword(p1, "all")
        THEN LET list_name == ParserCall("ParseListFieldName", <<ConsumeKeyword(Advance(p1), "of",
                                                     "Expected 'of' in 'delete all of [list]'.")>>)
             IN  [p |-> list_name.p, node |-> At(DeleteAllOfListStmt(list_name.name), start)]
        ELSE LET index == ParserCall("ParseWrappedExpression", <<p1>>)
                 list_name == ParserCall("ParseListFieldName", <<ConsumeKeyword(index.p, "of",
                                                     "Expected 'of' in list delete statement.")>>)
             IN  [p |-> list_name.p, node |-> At(DeleteOfListStmt(list_name.name, index.node), start)]

\* Parser._parse_insert_list_stmt
ParseInsertListStmt(p) ==
    LET start == Current(p)
        item  == ParserCall("ParseWrappedExpression", <<ConsumeKeyword(p, "insert", "Expected 'insert'.")>>)
        index == ParserCall("ParseWrappedExpression", <<ConsumeKeyword(item.p, "at", "Expected 'at' in list insert statement.")>>)
        list_name == ParserCall("ParseListFieldName", <<ConsumeKeyword(index.p, "of", "Expected 'of' in list insert statement.")>>)
    IN  [p |-> list_name.p, node |-> At(InsertAtListStmt(list_name.name, item.node, index.node), start)]

\* Parser._parse_replace_list_stmt
ParseReplaceListStmt(p) ==
    LET start == Current(p)
        index == ParserCall("ParseWrappedExpression", <<ConsumeKeyword(ConsumeKeyword(p, "replace", "Expected 'replace'."),
                                                       "item", "Expected 'item' after 'replace'.")>>)
        list_name == ParserCall("ParseListFieldName", <<ConsumeKeyword(index.p, "of", "Expected 'of' in list replace statement.")>>)
        item == ParserCall("ParseWrappedExpression", <<ConsumeKeyword(list_name.p, "with",
                                                      "Expected 'with' in list replace statement.")>>)
    IN  [p |-> item.p, node |-> At(ReplaceItemOfListStmt(list_name.name, index.node, item.node), start)]

\* the `while self._check_type("LPAREN")` loop of _parse_call_stmt
ParseCallArgs(p, args) ==
    IF p.err # NoError \/ ~CheckType(p, "LPAREN") THEN [p |-> p, nodes |-> args]
    ELSE LET arg == ParserCall("ParseWrappedExpression", <<p>>)
         IN  ParserCall("ParseCallArgs", <<arg.p, Append(args, arg.node)>>)

\* _parse_call_stmt with `()` read as an empty argument list
ParseCallStmtEmptyParens(p) ==
    LET name == Current(p)
        p1   == ConsumeType(p, "IDENT", "Expected procedure name.")
        p2   == IF p1.err = NoError /\ CheckType(p1, "LPAREN") /\ Peek(p1).type = "RPAREN"
                THEN Advance(Advance(p1)) ELSE p1
        args == ParserCall("ParseCallArgs", <<p2, <<>>>>)
    IN  [p |-> args.p, node |-> At(ProcedureCallStmt(name.value, args.nodes), name)]

\* Parser._parse_call_stmt
ParseCallStmt(p) ==
    LET name == Current(p)
        args == ParserCall("ParseCallArgs", <<ConsumeType(p, "IDENT", "Expected procedure name."), <<>>>>)
    IN  [p |-> args.p, node |-> At(ProcedureCallStmt(name.value, args.nodes), name)]


\* Parser._parse_statement_block : [p, nodes]
ParseStatementBlock(p, until_keywords, consume_until) ==
    ParserCall("ParseStatementBlockLoop", <<p, <<>>, until_keywords, consume_until>>)

\* the `while True` loop of _parse_statement_block
ParseStatementBlockLoop(p, statements, until_keywords, consume_until) ==
    LET p1 == SkipNewlines(p) IN
    IF p1.err # NoError \/ AtEnd(p1) THEN [p |-> p1, nodes |-> statements]
    ELSE IF Current(p1).type = "KEYWORD" /\ Current(p1).value \in {Str(k) : k \in until_keywords}
    THEN [p |-> IF consume_until THEN Advance(p1) ELSE p1, nodes |-> statements]
    ELSE LET stmt == ParserCall("ParseStatement", <<p1>>)
         IN  ParserCall("ParseStatementBlockLoop", <<stmt.p, Append(statements, stmt.node), until_keywords, consume_until>>)

\* Parser._parse_repeat_stmt
ParseRepeatStmt(p) ==
    LET start == Current(p)
        times == ParserCall("ParseWrappedExpression", <<ConsumeKeyword(p, "repeat", "Expected 'repeat'.")>>)
        body  == ParserCall("ParseStatementBlock", <<SkipNewlines(times.p), {"end"}, FALSE>>)
    IN  [p |-> ConsumeKeyword(body.p, "end", "Expected 'end' to close repeat block."),
         node |-> At(RepeatStmt(times.node, body.nodes), start)]

\* Parser._parse_forever_stmt
ParseForeverStmt(p) ==
    LET start == Current(p)
        body  == ParserCall("ParseStatementBlock", <<SkipNewlines(ConsumeKeyword(p, "forever", "Expected 'forever'.")),
                                     {"end"}, FALSE>>)
    IN  [p |-> ConsumeKeyword(body.p, "end", "Expected 'end' to close forever block."),
         node |-> At(ForeverStmt(body.nodes), start)]

\* the condition of _parse_if_stmt : the faulty variant that leaves the angle brackets in
ParseIfConditionAngled(tokens, start) ==
    IF tokens = <<>>
    THEN [err |-> ParseError("Expected condition after 'if'", start.line, start.column), node |-> NoNode]
    ELSE LET angled == tokens[1].type = "OP" /\ tokens[1].value = <<"<">>
             closed == tokens[Len(tokens)].type = "OP" /\ tokens[Len(tokens)].value = <<">">>
         IN  IF angled /\ ~closed
             THEN [err  |-> ParseError("Expected condition enclosed in '<...>' before 'then'",
                                       start.line, start.column),
                   node |-> NoNode]
             ELSE ParserCall("ParseExpressionFromTokens", <<tokens>>)

\* Parser._parse_if_stmt : the condition, from the tokens collected up to `then`
ParseIfCondition(tokens, start) ==
    IF tokens = <<>>
    THEN [err |-> ParseError("Expected condition after 'if'", start.line, start.column), node |-> NoNode]
    ELSE LET angled == tokens[1].type = "OP" /\ tokens[1].value = <<"<">>
             closed == tokens[Len(tokens)].type = "OP" /\ tokens[Len(tokens)].value = <<">">>
             condition_tokens == IF angled THEN SubSeq(tokens, 2, Len(tokens) - 1) ELSE tokens
         IN  IF angled /\ ~closed
             THEN [err  |-> ParseError("Expected condition enclosed in '<...>' before 'then'",
                                       start.line, start.column),
                   node |-> NoNode]
             ELSE IF condition_tokens = <<>>
             THEN [err |-> Err("IndexError", "list index out of range", 0, 0), node |-> NoNode]
             ELSE ParserCall("ParseExpressionFromTokens", <<condition_tokens>>)

\* Parser._parse_if_stmt
ParseIfStmt(p) ==
    LET start     == Current(p)
        collected == ParserCall("CollectTokensUntilKeyword", <<ConsumeKeyword(p, "if", "Expected 'if'."), "then", <<>>, 0, 0>>)
        condition == ParserCall("ParseIfCondition", <<collected.tokens, start>>)
    IN  IF collected.p.err # NoError THEN Fail(collected.p)
        ELSE IF condition.err # NoError THEN Fail([collected.p EXCEPT !.err = condition.err])
        ELSE LET p1 == SkipNewlines(ConsumeKeyword(collected.p, "then", "Expected 'then' in if statement."))
                 then_body == ParserCall("ParseStatementBlock", <<p1, {"else", "end"}, FALSE>>)
                 has_else  == then_body.p.err = NoError /\ CheckKeyword(then_body.p, "else")
                 else_body == IF has_else
                              THEN ParserCall("ParseStatementBlock", <<SkipNewlines(Advance(then_body.p)), {"end"}, FALSE>>)
                              ELSE [p |-> then_body.p, nodes |-> <<>>]
             IN  [p |-> ConsumeKeyword(else_body.p, "end", "Expected 'end' to close if statement."),
                  node |-> At(IfStmt(condition.node, then_body.nodes, else_body.nodes), start)]

\* Parser._parse_statement
ParseStatement(p) ==
    IF p.err # NoError THEN Fail(p)
    ELSE IF CheckKeyword(p, "broadcast") THEN ParserCall("ParseBroadcastStmt", <<p>>)
    ELSE IF CheckKeyword(p, "set") THEN ParserCall("ParseSetStmt", <<p>>)
    ELSE IF CheckKeyword(p, "change") THEN ParserCall("ParseChangeStmt", <<p>>)
    ELSE IF CheckKeyword(p, "move") THEN ParserCall("ParseMoveStmt", <<p>>)
    ELSE IF CheckKeyword(p, "say")
    THEN ParserCall("ParseExprStmt", <<ConsumeKeyword(p, "say", "Expected 'say'."), Current(p), "SayStmt">>)
    ELSE IF CheckKeyword(p, "think")
    THEN ParserCall("ParseExprStmt", <<ConsumeKeyword(p, "think", "Expected 'think'."), Current(p), "ThinkStmt">>)
    ELSE IF CheckKeyword(p, "repeat") THEN ParserCall("ParseRepeatStmt", <<p>>)
    ELSE IF CheckKeyword(p, "forever") THEN ParserCall("ParseForeverStmt", <<p>>)
    ELSE IF CheckKeyword(p, "if")
    THEN IF LooksLikeIfOnEdgeBounce(p) THEN ParserCall("ParseIfOnEdgeBounceStmt", <<p>>) ELSE ParserCall("ParseIfStmt", <<p>>)
    ELSE IF CheckKeyword(p, "turn") THEN ParserCall("ParseTurnStmt", <<p>>)
    ELSE IF CheckKeyword(p, "go") THEN ParserCall("ParseGoStmt", <<p>>)
    ELSE IF CheckKeyword(p, "point") THEN ParserCall("ParsePointStmt", <<p>>)
    ELSE IF CheckKeyword(p, "show")
    THEN [p |-> Advance(p), node |-> At(NoExprStmt("ShowStmt"), Current(p))]
    ELSE IF CheckKeyword(p, "hide")
    THEN [p |-> Advance(p), node |-> At(NoExprStmt("HideStmt"), Current(p))]
    ELSE IF CheckKeyword(p, "next") THEN ParserCall("ParseNextStmt", <<p>>)
    ELSE IF CheckKeyword(p, "wait")
    THEN ParserCall("ParseExprStmt", <<ConsumeKeyword(p, "wait", "Expected 'wait'."), Current(p), "WaitStmt">>)
    ELSE IF CheckKeyword(p, "stop")
    THEN ParserCall("ParseExprStmt", <<ConsumeKeyword(p, "stop", "Expected 'stop'."), Current(p), "StopStmt">>)
    ELSE IF CheckKeyword(p, "ask")
    THEN ParserCall("ParseExprStmt", <<ConsumeKeyword(p, "ask", "Expected 'ask'."), Current(p), "AskStmt">>)
    ELSE IF CheckKeyword(p, "reset") THEN ParserCall("ParseResetStmt", <<p>>)
    ELSE IF CheckKeyword(p, "add") THEN ParserCall("ParseAddToListStmt", <<p>>)
    ELSE IF CheckKeyword(p, "delete") THEN ParserCall("ParseDeleteListStmt", <<p>>)
    ELSE IF CheckKeyword(p, "insert") THEN ParserCall("ParseInsertListStmt", <<p>>)
    ELSE IF CheckKeyword(p, "replace") THEN ParserCall("ParseReplaceListStmt", <<p>>)
    ELSE IF Current(p).type = "IDENT" THEN ParserCall("ParseCallStmt", <<p>>)
    ELSE Fail(ErrorHere(p, "Unknown statement."))

\* the `while self._check_type("LPAREN")` loop of _parse_procedure : [p, names]
ParseParams(p, params) ==
    IF p.err # NoError \/ ~CheckType(p, "LPAREN") THEN [p |-> p, names |-> params]
    ELSE LET p1 == ConsumeType(p, "LPAREN", "Expected '('.")
         IN  IF CheckType(p1, "RPAREN")
             THEN [p |-> ErrorHere(p1, "Empty parameter declaration is not allowed."), names |-> params]
             ELSE LET param == ParserCall("ParseNameToken", <<p1>>)
                  IN  ParserCall("ParseParams", <<ConsumeType(param.p, "RPAREN", "Expected ')' after parameter name."),
                                  Append(params, param.name)>>)

\* Parser._parse_procedure
ParseProcedure(p, line, col) ==
    LET name   == ParserCall("ParseNameToken", <<p>>)
        params == ParserCall("ParseParams", <<name.p, <<>>>>)
        body   == ParserCall("ParseStatementBlock", <<SkipNewlines(params.p), {"end"}, FALSE>>)
    IN  [p    |-> ConsumeKeyword(body.p, "end", "Expected 'end' to close procedure definition."),
         node |-> [Procedure(name.name, params.names, body.nodes) EXCEPT !.line = line, !.column = col]]

\* Parser._parse_event_script : the header after `when` : [p, event_type, message]
ParseEventHeader(p) ==
    IF p.err # NoError THEN [p |-> p, event_type |-> "none", message |-> NoneStr]
    ELSE IF CheckKeyword(p, "flag")
    THEN [p |-> ConsumeKeyword(Advance(p), "clicked", "Expected 'clicked' after 'when flag'."),
          event_type |-> "when_flag_clicked", message |-> NoneStr]
    ELSE IF CheckKeyword(p, "this")
    THEN [p |-> ConsumeKeyword(ConsumeKeyword(Advance(p),
                    "sprite", "Expected 'sprite' in 'when this sprite clicked'."),
                    "clicked", "Expected 'clicked' in 'when this sprite clicked'."),
          event_type |-> "when_this_sprite_clicked", message |-> NoneStr]
    ELSE IF CheckKeyword(p, "i")
    THEN LET message == ParserCall("ParseBracketText", <<ConsumeKeyword(Advance(p), "receive", "Expected 'receive' after 'when I'.")>>)
         IN  [p |-> IF message.p.err = NoError /\ message.name = <<>>
                    THEN ErrorHere(message.p, "Broadcast message cannot be empty.") ELSE message.p,
              event_type |-> "when_i_receive", message |-> message.name]
    ELSE [p |-> ErrorHere(p, "Unknown event header after 'when'."), event_type |-> "none", message |-> NoneStr]

\* _parse_event_script : the faulty variant whose body stops at `end` only, so that a
\* script is never closed by the header that follows it
ParseEventScriptStopsAtEnd(p, line, col) ==
    LET header == ParserCall("ParseEventHeader", <<p>>)
        body   == ParserCall("ParseStatementBlock", <<SkipNewlines(header.p), {"end"}, FALSE>>)
        p1     == IF body.p.err = NoError /\ CheckKeyword(body.p, "end") /\ LooksLikeEventEnd(body.p)
                  THEN Advance(body.p) ELSE body.p
    IN  [p    |-> p1,
         node |-> [EventScript(header.event_type, header.message, body.nodes)
                      EXCEPT !.line = line, !.column = col]]

\* Parser._parse_event_script
ParseEventScript(p, line, col) ==
    LET header == ParserCall("ParseEventHeader", <<p>>)
        body   == ParserCall("ParseStatementBlock", <<SkipNewlines(header.p),
                                      {"when", "define", "var", "list", "costume", "end"}, FALSE>>)
        p1     == IF body.p.err = NoError /\ CheckKeyword(body.p, "end") /\ LooksLikeEventEnd(body.p)
                  THEN Advance(body.p) ELSE body.p
    IN  [p    |-> p1,
         node |-> [EventScript(header.event_type, header.message, body.nodes)
                      EXCEPT !.line = line, !.column = col]]

\* the `while True` loop of _parse_target_body
ParseTargetBodyLoop(p, target) ==
    LET p1 == SkipNewlines(p) IN
    IF p1.err # NoError THEN [p |-> p1, node |-> target]
    ELSE IF AtEnd(p1)
    THEN [p |-> ErrorHere(p1, "Unterminated target block. Expected 'end'."), node |-> target]
    ELSE IF CheckKeyword(p1, "end") THEN [p |-> Advance(p1), node |-> target]
    ELSE IF CheckKeyword(p1, "var")
    THEN LET var_name == ParserCall("ParseNameToken", <<Advance(p1)>>)
         IN  ParserCall("ParseTargetBodyLoop", <<var_name.p,
                 [target EXCEPT !.variables = Append(@, At(VariableDecl(var_name.name), Current(p1)))]>>)
    ELSE IF CheckKeyword(p1, "list")
    THEN LET list_name == ParserCall("ParseNameToken", <<Advance(p1)>>)
         IN  ParserCall("ParseTargetBodyLoop", <<list_name.p,
                 [target EXCEPT !.lists = Append(@, At(ListDecl(list_name.name), Current(p1)))]>>)
    ELSE IF CheckKeyword(p1, "costume")
    THEN LET path_token == Current(Advance(p1))
         IN  ParserCall("ParseTargetBodyLoop", <<ConsumeType(Advance(p1), "STRING", "Expected costume path string."),
                 [target EXCEPT !.costumes = Append(@, At(CostumeDecl(path_token.value), Current(p1)))]>>)
    ELSE IF CheckKeyword(p1, "define")
    THEN LET procedure == ParserCall("ParseProcedure", <<Advance(p1), Current(p1).line, Current(p1).column>>)
         IN  ParserCall("ParseTargetBodyLoop", <<procedure.p, [target EXCEPT !.procedures = Append(@, procedure.node)]>>)
    ELSE IF CheckKeyword(p1, "when")
    THEN LET script == ParserCall("ParseEventScript", <<Advance(p1), Current(p1).line, Current(p1).column>>)
         IN  ParserCall("ParseTargetBodyLoop", <<script.p, [target EXCEPT !.scripts = Append(@, script.node)]>>)
    ELSE [p |-> ErrorHere(p1, "Expected 'var', 'list', 'costume', 'define', 'when', or 'end' inside target."),
          node |-> target]

\* Parser._parse_target_body
ParseTargetBody(p, name, is_stage, line, col) ==
    ParserCall("ParseTargetBodyLoop", <<p, [Target(name, is_stage, <<>>, <<>>, <<>>, <<>>, <<>>)
                               EXCEPT !.line = line, !.column = col]>>)

\* Parser._parse_sprite
ParseSprite(p, line, col) ==
    LET name == ParserCall("ParseSpriteNameToken", <<p>>)
    IN  ParserCall("ParseTargetBody", <<SkipNewlines(name.p), name.name, FALSE, line, col>>)

\* Parser._parse_stage
ParseStage(p, line, col) ==
    LET name == IF CheckType(p, "IDENT") \/ CheckType(p, "STRING") THEN ParserCall("ParseNameToken", <<p>>)
                ELSE [p |-> p, name |-> Chars_Stage]
    IN  ParserCall("ParseTargetBody", <<SkipNewlines(name.p), name.name, TRUE, line, col>>)

\* the `while not self._at_end()` loop of parse_project : [p, nodes]
ParseTargets(p, targets) ==
    IF p.err # NoError \/ AtEnd(p) THEN [p |-> p, nodes |-> targets]
    ELSE LET token == Current(p)
             target == IF CheckKeyword(p, "sprite") THEN ParserCall("ParseSprite", <<Advance(p), token.line, token.column>>)
                       ELSE IF CheckKeyword(p, "stage") THEN ParserCall("ParseStage", <<Advance(p), token.line, token.column>>)
                       ELSE Fail(ErrorHere(p, "Expected 'sprite' or 'stage'."))
         IN  ParserCall("ParseTargets", <<SkipNewlines(target.p), Append(targets, target.node)>>)

\* Parser.parse_project : [project, err]
ParseProject(p) ==
    LET p1 == SkipNewlines(p)
        r  == ParserCall("ParseTargets", <<p1, <<>>>>)
    IN  IF r.p.err # NoError THEN [project |-> Project(<<>>), err |-> r.p.err]
        ELSE IF r.nodes = <<>>
        THEN [project |-> Project(<<>>),
              err |-> ParseError("Expected at least one 'stage' or 'sprite' block.", 0, 0)]
        ELSE [project |-> [Project(r.nodes) EXCEPT !.line = Current(p1).line, !.column = Current(p1).column],
              err |-> NoError]

\* self.<method>(args) on a Parser: the parsing methods call one another by name, so
\* every method's body is instantiated once, under this operator
ParserCall(method, args) ==
    CASE method = "ParseNameToken"            -> ParseNameToken(args[1])
      [] method = "ParseSpriteNameToken"      -> ParseSpriteNameToken(args[1])
      [] method = "ParseBracketTokensLoop"    -> ParseBracketTokensLoop(args[1], args[2])
      [] method = "ParseBracketTokens"        -> ParseBracketTokens(args[1])
      [] method = "ParseBracketText"          -> ParseBracketText(args[1])
      [] method = "ParseVariableFieldName"    -> ParseVariableFieldName(args[1])
      [] method = "ParseListFieldName"        -> ParseListFieldName(args[1])
      [] method = "ParseWrappedExpression"    -> ParseWrappedExpression(args[1])
      [] method = "ParseExpression"           -> ParseExpression(args[1], args[2], args[3])
      [] method = "ParseExpressionLoop"       -> ParseExpressionLoop(args[1], args[2], args[3], args[4])
      [] method = "ParseUnary"                -> ParseUnary(args[1], args[2])
      [] method = "ParsePickRandomExpr"       -> ParsePickRandomExpr(args[1])
      [] method = "ParseItemOfListExpr"       -> ParseItemOfListExpr(args[1])
      [] method = "ParseLengthExpr"           -> ParseLengthExpr(args[1])
      [] method = "ParseKeyPressedExpr"       -> ParseKeyPressedExpr(args[1])
      [] method = "ParsePrimary"              -> ParsePrimary(args[1], args[2])
      [] method = "ParseExpressionFromTokens" -> ParseExpressionFromTokens(args[1])
      [] method = "CollectTokensUntilKeyword" -> CollectTokensUntilKeyword(args[1], args[2], args[3], args[4], args[5])
      [] method = "ParseExprStmt"             -> ParseExprStmt(args[1], args[2], args[3])
      [] method = "ParseBroadcastStmt"        -> ParseBroadcastStmt(args[1])
      [] method = "ParseSetStmt"              -> ParseSetStmt(args[1])
      [] method = "ParseChangeStmt"           -> ParseChangeStmt(args[1])
      [] method = "ParseMoveStmt"             -> ParseMoveStmt(args[1])
      [] method = "ParseIfOnEdgeBounceStmt"   -> ParseIfOnEdgeBounceStmt(args[1])
      [] method = "ParseTurnStmt"             -> ParseTurnStmt(args[1])
      [] method = "ParseGoStmt"               -> ParseGoStmt(args[1])
      [] method = "ParsePointStmt"            -> ParsePointStmt(args[1])
      [] method = "ParseNextStmt"             -> ParseNextStmt(args[1])
      [] method = "ParseResetStmt"            -> ParseResetStmt(args[1])
      [] method = "ParseAddToListStmt"        -> ParseAddToListStmt(args[1])
      [] method = "ParseDeleteListStmt"       -> ParseDeleteListStmt(args[1])
      [] method = "ParseInsertListStmt"       -> ParseInsertListStmt(args[1])
      [] method = "ParseReplaceListStmt"      -> ParseReplaceListStmt(args[1])
      [] method = "ParseCallArgs"             -> ParseCallArgs(args[1], args[2])
      [] method = "ParseCallStmt"             -> ParseCallStmt(args[1])
      [] method = "ParseStatementBlock"       -> ParseStatementBlock(args[1], args[2], args[3])
      [] method = "ParseStatementBlockLoop"   -> ParseStatementBlockLoop(args[1], args[2], args[3], args[4])
      [] method = "ParseRepeatStmt"           -> ParseRepeatStmt(args[1])
      [] method = "ParseForeverStmt"          -> ParseForeverStmt(args[1])
      [] method = "ParseIfCondition"          -> ParseIfCondition(args[1], args[2])
      [] method = "ParseIfStmt"               -> ParseIfStmt(args[1])
      [] method = "ParseStatement"            -> ParseStatement(args[1])
      [] method = "ParseParams"               -> ParseParams(args[1], args[2])
      [] method = "ParseProcedure"            -> ParseProcedure(args[1], args[2], args[3])
      [] method = "ParseEventHeader"          -> ParseEventHeader(args[1])
      [] method = "ParseEventScript"          -> ParseEventScript(args[1], args[2], args[3])
      [] method = "ParseTargetBodyLoop"       -> ParseTargetBodyLoop(args[1], args[2])
      [] method = "ParseTargetBody"           -> ParseTargetBody(args[1], args[2], args[3], args[4], args[5])
      [] method = "ParseSprite"               -> ParseSprite(args[1], args[2], args[3])
      [] method = "ParseStage"                -> ParseStage(args[1], args[2], args[3])
      [] method = "ParseTargets"              -> ParseTargets(args[1], args[2])
      [] method = "ParseProject"              -> ParseProject(args[1])

\* Parser.from_source, from `return cls(tokens).parse_project()` on; lexed is what
\* tokenize() returned or raised
FromTokens(lexed) ==
    IF lexed.err # NoError THEN [project |-> Project(<<>>), err |-> lexed.err]
    ELSE ParserCall("ParseProject", <<Parser(lexed.tokens)>>)

\* Parser.from_source : [project, err]
FromSource(source) == FromTokens(Tokenize(source))

-----------------------------------------------------------------------------
(* imports.py.  A source file is its text; a path is the name of a file in  *)
(* the one directory of the project, so Path.resolve() only drops leading   *)
(* "./" segments.                                                           *)

ImportResolutionError(what, line) == Err("ImportResolutionError", what, line, 0)

\* class ImportSpec
ImportSpec(sprite_name, relative_path, line) ==
    [sprite_name |-> sprite_name, relative_path |-> relative_path, line |-> line]

\* class _ResolvedFile
ResolvedFile(local_targets, combined_targets) ==
    [local_targets |-> local_targets, combined_targets |-> combined_targets]

RECURSIVE SplitLinesFrom(_, _, _)
\* str.splitlines(keepends=True) from index i on, the current line starting at `start`;
\* i moves to the next line boundary in one step
SplitLinesFrom(s, i, start) ==
    LET breaks == {j \in i..Len(s) : s[j] \in {"\n", "\r"}}
        b == CHOOSE j \in breaks : \A k \in breaks : j <= k
    IN  IF breaks = {} THEN (IF start > Len(s) THEN <<>> ELSE <<SubSeq(s, start, Len(s))>>)
        ELSE IF s[b] = "\r" /\ b < Len(s) /\ s[b + 1] = "\n"
        THEN <<SubSeq(s, start, b + 1)>> \o SplitLinesFrom(s, b + 2, b + 2)
        ELSE <<SubSeq(s, start, b)>> \o SplitLinesFrom(s, b + 1, b + 1)

SplitLines(s) == SplitLinesFrom(s, 1, 1)

RECURSIVE RStripNewline(_)
\* str.rstrip("\r\n")
RStripNewline(s) ==
    IF s # <<>> /\ s[Len(s)] \in {"\r", "\n"} THEN RStripNewline(SubSeq(s, 1, Len(s) - 1)) ELSE s

RECURSIVE LStripBom(_)
\* str.lstrip of the byte order mark
LStripBom(s) == IF s # <<>> /\ s[1] = BOM THEN LStripBom(Tail(s)) ELSE s

\* _is_blank_or_comment
IsBlankOrComment(line) == Strip(line) = <<>> \/ Head(Strip(line)) = "#"

RECURSIVE SkipSpace(_, _)
\* the index after the run of \s that starts at index i
SkipSpace(s, i) == IF i <= Len(s) /\ s[i] \in Whitespace THEN SkipSpace(s, i + 1) ELSE i

\* s reads `word` at index i, in either letter case
HasWordAt(s, i, word) == i + Len(word) - 1 <= Len(s) /\ Lower(SubSeq(s, i, i + Len(word) - 1)) = word

\* the first index >= i of character c in s, 0 when there is none
IndexFrom(s, i, c) ==
    IF \E j \in i..Len(s) : s[j] = c
    THEN CHOOSE j \in i..Len(s) : s[j] = c /\ \A k \in i..(j - 1) : s[k] # c
    ELSE 0

\* IMPORT_PATTERN.match(line) :
\*   ^\s*import\s+\[(?P<name>[^\]\r\n]+)\]\s+from\s+"(?P<path>[^"\r\n]+)"\s*(?:#.*)?$   (IGNORECASE)
\* [matched, name, path]
MatchImport(line) ==
    LET word   == SkipSpace(line, 1)
        open   == SkipSpace(line, word + 6)
        close  == IndexFrom(line, open + 1, "]")
        from   == SkipSpace(line, close + 1)
        quote1 == SkipSpace(line, from + 4)
        quote2 == IndexFrom(line, quote1 + 1, "\"")
        rest   == SkipSpace(line, quote2 + 1)
        matched == /\ HasWordAt(line, word, Str("import"))
                   /\ open > word + 6 /\ open <= Len(line) /\ line[open] = "["
                   /\ close > open + 1
                   /\ from > close + 1 /\ HasWordAt(line, from, Str("from"))
                   /\ quote1 > from + 4 /\ quote1 <= Len(line) /\ line[quote1] = "\""
                   /\ quote2 > quote1 + 1
                   /\ (rest > Len(line) \/ line[rest] = "#")
    IN  IF matched
        THEN [matched |-> TRUE, name |-> SubSeq(line, open + 1, close - 1),
              path |-> SubSeq(line, quote1 + 1, quote2 - 1)]
        ELSE [matched |-> FALSE, name |-> <<>>, path |-> <<>>]

RECURSIVE ExtractImportsFrom(_, _, _, _, _)
\* the `for line_no, line in enumerate(lines, start=1)` loop of _extract_imports
ExtractImportsFrom(lines, line_no, imports, output, saw_non_import_code) ==
    IF line_no > Len(lines) THEN [imports |-> imports, source |-> output, err |-> NoError]
    ELSE LET line == lines[line_no]
             current_line == IF line_no = 1 /\ line # <<>> /\ line[1] = BOM THEN LStripBom(line) ELSE line
             stripped_nl  == RStripNewline(current_line)
             match == MatchImport(stripped_nl)
             sprite_name   == Strip(match.name)
             relative_path == Strip(match.path)
             Raise_(what) == [imports |-> imports, source |-> output, err |-> ImportResolutionError(what, line_no)]
         IN  IF match.matched
             THEN IF saw_non_import_code THEN Raise_("Imports are only allowed at the top level.")
                  ELSE IF sprite_name = <<>> THEN Raise_("Import sprite name cannot be empty")
                  ELSE IF relative_path = <<>> THEN Raise_("Import path cannot be empty")
                  ELSE ExtractImportsFrom(lines, line_no + 1,
                           Append(imports, ImportSpec(sprite_name, relative_path, line_no)),
                           output \o (IF current_line[Len(current_line)] = "\n" THEN <<"\n">> ELSE <<>>),
                           saw_non_import_code)
             ELSE ExtractImportsFrom(lines, line_no + 1, imports, output \o current_line,
                                     saw_non_import_code \/ ~IsBlankOrComment(stripped_nl))

\* _extract_imports : [imports, source, err]
ExtractImports(source) == ExtractImportsFrom(SplitLines(source), 1, <<>>, <<>>, FALSE)

\* _parse_local_targets, `return list(project.targets)`; parsed is what from_source
\* returned or raised
TargetsOf(parsed) == [targets |-> parsed.project.targets, err |-> parsed.err]

\* _parse_local_targets : [targets, err]
ParseLocalTargets(source) ==
    IF \A k \in 1..Len(SplitLines(source)) : IsBlankOrComment(SplitLines(source)[k])
    THEN [targets |-> <<>>, err |-> NoError]
    ELSE TargetsOf(FromSource(source))

\* _normalize_target_asset_paths : the targets with every relative costume path replaced
\* by the absolute path of the candidate picked
NormalizeTargetAssetPaths(files, local_targets) ==
    LET Normalized(costume) ==
            IF PathOf(costume.path).abs THEN costume
            ELSE [costume EXCEPT !.path = PathText(ResolveCostumePath(files, PathOf(costume.path)))]
    IN  [t \in 1..Len(local_targets) |->
            [local_targets[t] EXCEPT !.costumes =
                [c \in 1..Len(local_targets[t].costumes) |-> Normalized(local_targets[t].costumes[c])]]]

\* the sprites among targets, in order
RECURSIVE LocalSprites(_)
LocalSprites(targets) ==
    IF targets = <<>> THEN <<>>
    ELSE (IF Head(targets).is_stage THEN <<>> ELSE <<Head(targets)>>) \o LocalSprites(Tail(targets))

\* _validate_imported_file with the names compared without regard to letter case
ValidateImportedFileAnyCase(spec, local_targets) ==
    LET local_sprites == LocalSprites(local_targets)
    IN  IF Len(local_sprites) = 0 THEN ImportResolutionError("defines zero sprites; expected exactly one", spec.line)
        ELSE IF Len(local_sprites) > 1
        THEN ImportResolutionError("defines more than one sprite; expected exactly one", spec.line)
        ELSE IF \E t \in 1..Len(local_targets) : local_targets[t].is_stage
        THEN ImportResolutionError("must not define a stage", spec.line)
        ELSE IF Lower(local_sprites[1].name) # Lower(spec.sprite_name)
        THEN ImportResolutionError("Imported sprite name mismatch", spec.line)
        ELSE NoError

\* _validate_imported_file : the exception raised, or NoError
ValidateImportedFile(spec, local_targets) ==
    LET local_sprites == LocalSprites(local_targets)
    IN  IF Len(local_sprites) = 0 THEN ImportResolutionError("defines zero sprites; expected exactly one", spec.line)
        ELSE IF Len(local_sprites) > 1
        THEN ImportResolutionError("defines more than one sprite; expected exactly one", spec.line)
        ELSE IF \E t \in 1..Len(local_targets) : local_targets[t].is_stage
        THEN ImportResolutionError("must not define a stage", spec.line)
        ELSE IF local_sprites[1].name # spec.sprite_name
        THEN ImportResolutionError("Imported sprite name mismatch", spec.line)
        ELSE NoError

\* _ensure_unique_sprite_names : the variant that compares the names as written
EnsureUniqueSpriteNamesAsWritten(targets, k, seen) ==
    LET sprites == {i \in 1..Len(targets) : ~targets[i].is_stage}
    IN  IF \E i \in sprites : \E j \in sprites : i # j /\ targets[i].name = targets[j].name
        THEN ImportResolutionError("Duplicate sprite name in final project", 0)
        ELSE NoError

RECURSIVE EnsureUniqueSpriteNamesFrom(_, _, _)
\* the loop of _ensure_unique_sprite_names from target k on
EnsureUniqueSpriteNamesFrom(targets, k, seen) ==
    IF k > Len(targets) THEN NoError
    ELSE IF targets[k].is_stage THEN EnsureUniqueSpriteNamesFrom(targets, k + 1, seen)
    ELSE IF Lower(targets[k].name) \in seen
    THEN ImportResolutionError("Duplicate sprite name in final project", 0)
    ELSE EnsureUniqueSpriteNamesFrom(targets, k + 1, seen \cup {Lower(targets[k].name)})

\* _ensure_unique_sprite_names
EnsureUniqueSpriteNames(targets) == EnsureUniqueSpriteNamesFrom(targets, 1, {})

RECURSIVE ResolvePath(_)
\* (path.parent / relative_path).resolve()
ResolvePath(relative_path) ==
    IF Len(relative_path) >= 2 /\ SubSeq(relative_path, 1, 2) = <<".", "/">>
    THEN ResolvePath(SubSeq(relative_path, 3, Len(relative_path)))
    ELSE relative_path

\* stack.index(path) ; stack is 0-based in the source
StackIndex(stack, path) == CHOOSE i \in 1..Len(stack) : stack[i] = path /\ \A j \in 1..(i - 1) : stack[j] # path

\* the cycle named by the error, taken from the bottom of the stack
CycleFromBottom(stack, path) == Append(stack, path)

\* cycle = stack[cycle_start:] + [path]
Cycle(stack, path) == Append(SubSeq(stack, StackIndex(stack, path), Len(stack)), path)

-----------------------------------------------------------------------------
(* The projects compiled: source files written out as text.                 *)

NL == <<"\n">>
File_m == Str("m")
File_a == Str("a")
File_b == Str("b")
File_c == Str("c")

Hats == {Str("when flag clicked"), Str("when this sprite clicked"), Str("when I receive [go]")}
CallForms == {Str("greet ()"), Str("greet"), Str("greet (1)"), Str("GREET")}
DefineForms ==
    {Str("define greet () say (\"hi\") end"), Str("define greet say (\"hi\") end"),
     Str("define greet (n) say (\"hi\") end"), Str("define greet\nsay (\"hi\")\nend")}

\* a sprite whose script calls the procedure before, or after, its definition
ForwardSource(hat, call, define) ==
    Str("sprite A\n") \o hat \o NL \o call \o NL \o define \o NL \o Str("end\n")
BackwardSource(hat, call, define) ==
    Str("sprite A\n") \o define \o NL \o hat \o NL \o call \o NL \o Str("end\n")

CallSources ==
    {ForwardSource(hat, call, define) : hat \in Hats, call \in CallForms, define \in DefineForms}
    \cup {BackwardSource(hat, call, define) : hat \in Hats, call \in CallForms, define \in DefineForms}

\* a sprite with one costume, and sources the lexer or the parser rejects
CostumeSource(path) == Str("sprite A\ncostume \"") \o path \o Str("\"\nwhen flag clicked\nbroadcast [go]\nend\n")
BrokenSources ==
    {Str("sprite A\nwhen flag clicked\nsay ($)\nend\n"), Str("sprite A\nwhen flag clicked\nsay (\"hi)\nend\n"),
     Str("sprite A\nwhen flag clicked\nsay \"hi\"\nend\n"), Str("# nothing\n")}

\* an archive left at the output path by an earlier run
OldArchive == [exists |-> TRUE, project_json |-> <<"old">>, assets |-> EmptyMap]

\* import [name] from "path"
ImportLine(name, path) == Str("import [") \o name \o Str("] from \"") \o path \o Str("\"\n")
SpriteText(name) == Str("sprite ") \o name \o Str("\nend\n")

RECURSIVE ImportLines(_)
\* one import line per file of `files`, each naming the sprite that file defines
ImportLines(files) ==
    IF files = <<>> THEN <<>>
    ELSE ImportLine(<<UpperLetters[IndexIn(LowerLetters, Head(files)[1])]>>, Head(files)) \o ImportLines(Tail(files))

\* a file that imports `files` and defines the sprite named after itself
GraphFile(name, files) ==
    ImportLines(files) \o SpriteText(<<UpperLetters[IndexIn(LowerLetters, name[1])]>>)

MaxImports == 2
GraphFiles == {File_a, File_b, File_c}
\* the import lists of one file: at most MaxImports different files, in either order
ImportLists ==
    {<<>>} \cup {<<f>> : f \in GraphFiles}
    \cup (IF MaxImports < 2 THEN {}
          ELSE {l \in {<<f, g>> : f \in GraphFiles, g \in GraphFiles} : l[1] # l[2]})
    \cup (IF MaxImports < 3 THEN {}
          ELSE {l \in {<<f, g, h>> : f \in GraphFiles, g \in GraphFiles, h \in GraphFiles} :
                  l[1] # l[2] /\ l[1] # l[3] /\ l[2] # l[3]})

\* every import graph over a, b and c, entered at a
GraphSystems ==
    {(File_a :> GraphFile(File_a, la)) @@ (File_b :> GraphFile(File_b, lb)) @@ (File_c :> GraphFile(File_c, lc))
       : la \in ImportLists \ {<<>>}, lb \in ImportLists, lc \in ImportLists}

\* a file imported twice by one file (under one spelling of its path, under two, with
\* another import between), by two files, and two files whose sprites differ in case only
RepeatedImportSystems ==
    {(File_a :> GraphFile(File_a, <<File_b, File_b>>)) @@ (File_b :> GraphFile(File_b, <<>>)),
     (File_a :> ImportLine(Str("B"), File_b) \o ImportLine(Str("B"), Str("./b")) \o SpriteText(Str("A")))
        @@ (File_b :> GraphFile(File_b, <<>>)),
     (File_a :> GraphFile(File_a, <<File_b, File_c, File_b>>)) @@ (File_b :> GraphFile(File_b, <<>>))
        @@ (File_c :> GraphFile(File_c, <<>>)),
     (File_a :> GraphFile(File_a, <<File_c, File_b>>)) @@ (File_b :> GraphFile(File_b, <<File_c>>))
        @@ (File_c :> GraphFile(File_c, <<>>)),
     (File_a :> ImportLine(Str("B"), File_b) \o SpriteText(Str("b"))) @@ (File_b :> GraphFile(File_b, <<>>)),
     (File_a :> ImportLine(Str("B"), File_b) \o ImportLine(Str("b"), File_c) \o SpriteText(Str("A")))
        @@ (File_b :> GraphFile(File_b, <<>>)) @@ (File_c :> SpriteText(Str("b"))),
     (File_a :> ImportLine(Str("B"), File_b) \o ImportLine(Str("X"), File_b) \o SpriteText(Str("A")))
        @@ (File_b :> GraphFile(File_b, <<>>))}

\* the file m imports as [Cat], and the file c beside it
ImportedTexts ==
    {SpriteText(Str("Cat")), SpriteText(Str("cat")), SpriteText(Str("Dog")), Str("stage\nend\n"), <<>>,
     Str("# nothing\n"), SpriteText(Str("Cat")) \o SpriteText(Str("Dog")),
     Str("stage\nend\n") \o SpriteText(Str("Cat")), SpriteText(Str("Cat")) \o Str("stage\nend\n"),
     ImportLine(Str("C"), File_c) \o SpriteText(Str("Cat")), ImportLine(Str("C"), File_c),
     ImportLine(Str("Cat"), File_c)}
ImportingTexts ==
    {ImportLine(Str("Cat"), File_b) \o SpriteText(Str("M")),
     ImportLine(Str("Cat"), Str("./b")) \o SpriteText(Str("M")),
     ImportLine(Str(" Cat "), File_b) \o Str("stage\nend\n"),
     SpriteText(Str("M")) \o ImportLine(Str("Cat"), File_b),
     ImportLine(Str("Cat"), Str("none")) \o SpriteText(Str("M"))}
ValidationSystems ==
    {(File_m :> m) @@ (File_b :> b) @@ (File_c :> c)
       : m \in ImportingTexts, b \in ImportedTexts, c \in {SpriteText(Str("C")), SpriteText(Str("Cat"))}}

\* what follows the header `when flag clicked` of the only script of sprite A: a body,
\* then one of the ways a script and its target can end
EventBodies == {<<>>, Str("say (1)\n"), Str("repeat (2)\nsay (1)\nend\n")}
EventTails ==
    {<<>>, Str("end"), Str("end\n"), Str("end\nend\n"), Str("end\n\n\nend\n"), Str("end\nend\nend\n"),
     Str("end\nsprite B\nend\n"), Str("end\nend\nsprite B\nend\n"), Str("end\nstage\nend\n"),
     Str("end\nend\n\nstage\nend\n"),
     Str("when this sprite clicked\nend\n"), Str("end\nwhen this sprite clicked\nsay (2)\nend\nend\n"),
     Str("define greet\nend\nend\n"), Str("end\ndefine greet\nend\nend\n"),
     Str("var x\nend\n"), Str("end\nvar x\nend\n"), Str("list y\nend\n"), Str("end\nlist y\nend\n"),
     Str("costume \"none.svg\"\nend\n"), Str("end\ncostume \"none.svg\"\nend\n"),
     Str("end\nsay (2)\nend\n"), Str("sprite B\nend\n")}
EventEndSource(body, tail) == Str("sprite A\nwhen flag clicked\n") \o body \o tail
EventEndSources == {EventEndSource(body, tail) : body \in EventBodies, tail \in EventTails}

\* sprite A declares one variable, by a bare word or by a string, and its script
\* compares the variable, read by its bare name, with 10 between angle brackets
IfAngleSource(name, quoted, then_body, else_body) ==
    Str("sprite A\nvar ") \o (IF quoted THEN Str("\"") \o name \o Str("\"") ELSE name)
    \o Str("\nwhen flag clicked\nif <") \o name \o Str(" < 10> then\n")
    \o then_body \o Str("else\n") \o else_body \o Str("end\nend\n")
IfAngleNames == {Str("score"), Str("v"), Str("x"), Str("y")}
IfAngleBodies == {<<>>, Str("say (1)\n")}
IfAngleSources ==
    {IfAngleSource(name, quoted, t, e)
        : name \in IfAngleNames, quoted \in BOOLEAN, t \in IfAngleBodies, e \in IfAngleBodies}

\* the minimal project: a stage that broadcasts `start` when the flag is clicked, and the
\* sprite Cat that on receiving it sets its variable score and changes it in a repeat;
\* and the same project with the sprite answering by a broadcast of its own
S1Source ==
    Str("stage\nwhen flag clicked\nbroadcast [start]\nend\n")
    \o Str("sprite Cat\nvar score\nwhen I receive [start]\nset [score] to (0)\n")
    \o Str("repeat (3)\nchange [score] by (1)\nend\nend\nend\n")
S1EchoSource ==
    Str("stage\nwhen flag clicked\nbroadcast [start]\nend\n")
    \o Str("sprite Cat\nvar score\nwhen I receive [start]\nset [score] to (0)\n")
    \o Str("repeat (3)\nbroadcast [start]\nend\nend\nend\n")
ScenarioSources == {S1Source, S1EchoSource}

\* statements that name a variable, a list, a parameter or a procedure: declared (v, L,
\* n, inc), declared in another case, or not declared (w, M, foo)
LookupStatements ==
    {Str("set [v] to (1)\n"), Str("set [V] to (n)\n"), Str("set [n] to (1)\n"), Str("set [w] to (1)\n"),
     Str("change [v] by (V)\n"), Str("change [N] by (1)\n"),
     Str("say (v)\n"), Str("say (n)\n"), Str("say (N + w)\n"),
     Str("add (1) to [L]\n"), Str("add (v) to [l]\n"), Str("add (n) to [M]\n"),
     Str("say (item (1) of [l])\n"), Str("say (length of [M])\n"), Str("say ([L] contains (n))\n"),
     Str("delete all of [l]\n"),
     Str("inc (1)\n"), Str("INC (v)\n"), Str("foo (1)\n"), Str("inc (w)\n"),
     Str("repeat (n)\nsay (N)\nend\n"), Str("forever\nset [V] to (1)\nend\n")}

\* sprite A with variable v, list L and procedure inc (n): one statement in the body of
\* the procedure, one in the flag-clicked script
LookupSource(in_procedure, in_script) ==
    Str("sprite A\nvar v\nlist L\ndefine inc (n)\n") \o in_procedure
    \o Str("end\nwhen flag clicked\n") \o in_script \o Str("end\nend\n")

\* a sprite that reads or sets the variable g of the stage, or its own variable g
StageVariableSources ==
    {Str("stage\nvar g\nend\nsprite A\nwhen flag clicked\nsay (g)\nend\nend\n"),
     Str("stage\nvar g\nend\nsprite A\nvar g\nwhen flag clicked\nset [G] to (g)\nend\nend\n")}

LookupSources ==
    {LookupSource(p, s) : p \in LookupStatements, s \in LookupStatements} \cup StageVariableSources

\* the arguments of compile_file with the files they name
CompileInputs ==
    {[fs |-> (File_m :> src), input_path |-> File_m, disk |-> EmptyMap, scale_svgs |-> TRUE, output |-> out]
       : src \in CallSources \cup BrokenSources, out \in {Absent, OldArchive}}
    \cup {[fs |-> (File_m :> CostumeSource(path)), input_path |-> File_m, disk |-> Disk, scale_svgs |-> sc,
           output |-> out] : path \in CostumePaths, sc \in BOOLEAN, out \in {Absent, OldArchive}}
    \cup {[fs |-> (File_m :> src), input_path |-> File_m, disk |-> EmptyMap, scale_svgs |-> TRUE,
           output |-> Absent] : src \in EventEndSources \cup IfAngleSources \cup ScenarioSources
                                       \cup LookupSources}
    \cup {[fs |-> (File_m :> SpriteText(Str("M"))), input_path |-> File_a, disk |-> EmptyMap,
           scale_svgs |-> TRUE, output |-> OldArchive]}
    \cup {[fs |-> files, input_path |-> File_a, disk |-> EmptyMap, scale_svgs |-> TRUE, output |-> Absent]
            : files \in GraphSystems \cup RepeatedImportSystems}
    \cup {[fs |-> files, input_path |-> File_m, disk |-> EmptyMap, scale_svgs |-> TRUE, output |-> Absent]
            : files \in ValidationSystems}


-----------------------------------------------------------------------------
(* resolve_project_from_path as a state machine.  ir_frames holds the       *)
(* active _resolve_file calls, innermost last; a frame is the call's        *)
(* locals and its position: "enter" before the cache lookup, "loop" inside  *)
(* the `for spec in imports` loop, waiting while the call for the current   *)
(* import runs.  A call returns cache[path], so the caller reads the value  *)
(* returned from ir_cache.  A raise leaves through every `finally:          *)
(* stack.pop()` on the way out and ends resolve_project_from_path.          *)

Frame(path) ==
    [path |-> path, pc |-> "enter", imports |-> <<>>, idx |-> 0, local_targets |-> <<>>,
     imported_targets |-> <<>>, waiting |-> FALSE]

Top == ir_frames[Len(ir_frames)]
Pop(seq) == SubSeq(seq, 1, Len(seq) - 1)

\* the stack when an exception has left the calls `frames`, innermost last, without a
\* `finally`
UnwoundWithoutFinally(frames, stack) == stack

RECURSIVE Unwound(_, _)
\* the stack when an exception has left the calls `frames`, innermost last: a call that
\* is inside its `try` (it has appended its path) pops in its `finally: stack.pop()`
Unwound(frames, stack) ==
    IF frames = <<>> THEN stack
    ELSE Unwound(Pop(frames), IF frames[Len(frames)].pc = "loop" THEN Pop(stack) ELSE stack)

\* an exception leaves resolve_project_from_path, through every active call
IrRaise(e, cycle) ==
    /\ ir_result' = [project |-> Project(<<>>), err |-> e, cycle |-> cycle]
    /\ ir_pc' = "raised"
    /\ ir_frames' = <<>>
    /\ ir_stack' = Unwound(ir_frames, ir_stack)

\* resolve_project_from_path: the existence check, cache = {}, the first _resolve_file call
IrBegin ==
    /\ ir_pc = "start"
    /\ IF ResolvePath(ir_entry) \notin DOMAIN fs
       THEN /\ IrRaise(ImportResolutionError("Input file not found", 0), <<>>)
            /\ UNCHANGED ir_cache
       ELSE /\ ir_frames' = <<Frame(ResolvePath(ir_entry))>>
            /\ ir_cache' = EmptyMap
            /\ ir_stack' = <<>>
            /\ ir_pc' = "run"
            /\ UNCHANGED ir_result
    /\ UNCHANGED <<fs, ir_entry, ir_reads, cgVars, semVars, cfVars, psVars, first_run>>

\* _resolve_file: `if cached is not None: return cached`
IrCached ==
    /\ ir_pc = "run" /\ ir_frames # <<>> /\ Top.pc = "enter"
    /\ Top.path \in DOMAIN ir_cache
    /\ ir_frames' = Pop(ir_frames)
    /\ UNCHANGED <<fs, ir_entry, ir_pc, ir_stack, ir_cache, ir_result, ir_reads, cgVars, semVars, cfVars, psVars, first_run>>

\* _resolve_file: `if path in stack: raise ImportResolutionError("Circular import detected: ...")`
IrCycle ==
    /\ ir_pc = "run" /\ ir_frames # <<>> /\ Top.pc = "enter"
    /\ Top.path \notin DOMAIN ir_cache
    /\ InSeq(ir_stack, Top.path)
    /\ IrRaise(ImportResolutionError("Circular import detected", 0), Cycle(ir_stack, Top.path))
    /\ UNCHANGED <<fs, ir_entry, ir_cache, ir_reads, cgVars, semVars, cfVars, psVars, first_run>>

\* _resolve_file: read_text, _extract_imports, _parse_local_targets,
\* _normalize_target_asset_paths, stack.append(path)
IrRead ==
    /\ ir_pc = "run" /\ ir_frames # <<>> /\ Top.pc = "enter"
    /\ Top.path \notin DOMAIN ir_cache
    /\ ~InSeq(ir_stack, Top.path)
    /\ ir_reads' = Append(ir_reads, Top.path)
    /\ LET \* what follows _parse_local_targets, given what it and _extract_imports returned
           Parsed(extracted, parsed) ==
               IF parsed.err # NoError THEN IrRaise(parsed.err, <<>>)
               ELSE /\ ir_frames' = [ir_frames EXCEPT ![Len(ir_frames)] =
                                        [@ EXCEPT !.pc = "loop", !.imports = extracted.imports,
                                                  !.local_targets = NormalizeTargetAssetPaths(disk, parsed.targets)]]
                    /\ ir_stack' = Append(ir_stack, Top.path)
                    /\ UNCHANGED <<ir_pc, ir_result>>
           \* what follows _extract_imports, given what it returned
           Extracted(extracted) ==
               IF extracted.err # NoError THEN IrRaise(extracted.err, <<>>)
               ELSE Parsed(extracted, ParseLocalTargets(extracted.source))
       IN  Extracted(ExtractImports(fs[Top.path]))
    /\ UNCHANGED <<fs, ir_entry, ir_cache, cgVars, semVars, cfVars, psVars, first_run>>

\* _resolve_file: the next import of the loop: the existence check and the recursive call
IrImport ==
    /\ ir_pc = "run" /\ ir_frames # <<>> /\ Top.pc = "loop" /\ ~Top.waiting
    /\ Top.idx < Len(Top.imports)
    /\ LET spec == Top.imports[Top.idx + 1]
           child_path == ResolvePath(spec.relative_path)
       IN  IF child_path \notin DOMAIN fs
           THEN IrRaise(ImportResolutionError("Imported file does not exist", spec.line), <<>>)
           ELSE /\ ir_frames' = Append([ir_frames EXCEPT ![Len(ir_frames)].waiting = TRUE], Frame(child_path))
                /\ UNCHANGED <<ir_pc, ir_stack, ir_result>>
    /\ UNCHANGED <<fs, ir_entry, ir_cache, ir_reads, cgVars, semVars, cfVars, psVars, first_run>>

\* _resolve_file: the call for the current import returned: _validate_imported_file and
\* imported_targets.extend(child.combined_targets)
IrValidate ==
    /\ ir_pc = "run" /\ ir_frames # <<>> /\ Top.pc = "loop" /\ Top.waiting
    /\ LET spec  == Top.imports[Top.idx + 1]
           child == ir_cache[ResolvePath(spec.relative_path)]
           e     == ValidateImportedFile(spec, child.local_targets)
       IN  IF e # NoError THEN IrRaise(e, <<>>)
           ELSE /\ ir_frames' = [ir_frames EXCEPT ![Len(ir_frames)] =
                                    [@ EXCEPT !.waiting = FALSE, !.idx = @ + 1,
                                              !.imported_targets = @ \o child.combined_targets]]
                /\ UNCHANGED <<ir_pc, ir_stack, ir_result>>
    /\ UNCHANGED <<fs, ir_entry, ir_cache, ir_reads, cgVars, semVars, cfVars, psVars, first_run>>

\* _resolve_file, the loop is over : the faulty variant that puts the file's own targets first
IrReturnLocalFirst ==
    /\ ir_pc = "run" /\ ir_frames # <<>> /\ Top.pc = "loop" /\ ~Top.waiting
    /\ Top.idx = Len(Top.imports)
    /\ ir_stack' = Pop(ir_stack)
    /\ ir_cache' = (Top.path :> ResolvedFile(Top.local_targets, Top.local_targets \o Top.imported_targets))
                   @@ ir_cache
    /\ ir_frames' = Pop(ir_frames)
    /\ UNCHANGED <<fs, ir_entry, ir_pc, ir_result, ir_reads, cgVars, semVars, cfVars, psVars, first_run>>

\* _resolve_file: the loop is over: finally stack.pop(), cache[path] = resolved, return
IrReturn ==
    /\ ir_pc = "run" /\ ir_frames # <<>> /\ Top.pc = "loop" /\ ~Top.waiting
    /\ Top.idx = Len(Top.imports)
    /\ ir_stack' = Pop(ir_stack)
    /\ ir_cache' = (Top.path :> ResolvedFile(Top.local_targets, Top.imported_targets \o Top.local_targets))
                   @@ ir_cache
    /\ ir_frames' = Pop(ir_frames)
    /\ UNCHANGED <<fs, ir_entry, ir_pc, ir_result, ir_reads, cgVars, semVars, cfVars, psVars, first_run>>

\* resolve_project_from_path: _ensure_unique_sprite_names and the Project returned
IrFinish ==
    /\ ir_pc = "run" /\ ir_frames = <<>>
    /\ LET resolved == ir_cache[ResolvePath(ir_entry)]
           e == EnsureUniqueSpriteNames(resolved.combined_targets)
       IN  IF e # NoError
           THEN /\ ir_result' = [project |-> Project(<<>>), err |-> e, cycle |-> <<>>]
                /\ ir_pc' = "raised"
           ELSE /\ ir_result' = [project |-> Project(resolved.combined_targets), err |-> NoError, cycle |-> <<>>]
                /\ ir_pc' = "done"
    /\ UNCHANGED <<fs, ir_entry, ir_frames, ir_stack, ir_cache, ir_reads, cgVars, semVars, cfVars, psVars, first_run>>

NextImports ==
    IrBegin \/ IrCached \/ IrCycle \/ IrRead \/ IrImport \/ IrValidate \/ IrReturn \/ IrFinish

-----------------------------------------------------------------------------
(* compiler.py: compile_file as a state machine.  cf_pc names the call in   *)
(* progress; the calls themselves are the machines of the import resolver,  *)
(* the semantic validator and the code generator.  cf_trace lists the calls *)
(* compile_file has made.                                                   *)

\* the archive write_sb3 writes: project.json and one member per asset
Archive(project_json, asset_map) == [exists |-> TRUE, project_json |-> project_json, assets |-> asset_map]

\* compile_file: project = resolve_project_from_path(input_path)  (the call)
CfResolve ==
    /\ cf_pc = "start"
    /\ cf_pc' = "resolve"
    /\ cf_trace' = Append(cf_trace, "resolve_project_from_path")
    /\ ir_entry' = cf_input.input_path
    /\ ir_pc' = "start"
    /\ UNCHANGED <<cf_input, cf_project, cf_output, cf_error>>
    /\ UNCHANGED <<fs, ir_frames, ir_stack, ir_cache, ir_result, ir_reads, cgVars, semVars, psVars, first_run>>

\* compile_file: resolve_project_from_path returned; analyze(project)  (the call)
CfAnalyze ==
    /\ cf_pc = "resolve" /\ ir_pc = "done"
    /\ cf_project' = ir_result.project
    /\ cf_pc' = "analyze"
    /\ cf_trace' = Append(cf_trace, "analyze")
    /\ sem_project' = ir_result.project
    /\ sem_pc' = "start"
    /\ UNCHANGED <<cf_input, cf_output, cf_error, sem_result, cgVars, irVars, psVars, first_run>>

\* compile_file: analyze returned; generate_project_json(project, source_dir, scale_svgs)
\* (the call, up to the end of _ProjectBuilder.__init__)
CfGenerate ==
    /\ cf_pc = "analyze" /\ sem_pc = "accepted"
    /\ cf_pc' = "generate"
    /\ cf_trace' = Append(cf_trace, "generate_project_json")
    /\ project' = cf_project
    /\ scale_svgs' = cf_input.scale_svgs
    /\ id_counter' = 0
    /\ assets' = EmptyMap
    /\ broadcast_ids' = EmptyMap
    /\ minted' = <<>>
    /\ ordered' = <<>>
    /\ targets_json' = <<>>
    /\ sprite_layer' = 1
    /\ cg_pc' = "collect"
    /\ UNCHANGED <<disk, cg_error, cf_input, cf_project, cf_output, cf_error, semVars, irVars, psVars, first_run>>

\* write_sb3 called although generate_project_json has not returned
CfWriteEarly ==
    /\ cf_pc = "generate"
    /\ cf_output' = Archive([targets |-> targets_json], assets)
    /\ cf_pc' = "done"
    /\ cf_trace' = Append(cf_trace, "write_sb3")
    /\ UNCHANGED <<cf_input, cf_project, cf_error, cgVars, semVars, irVars, psVars, first_run>>

\* compile_file: generate_project_json returned; write_sb3(project_json, assets, output_path)
CfWrite ==
    /\ cf_pc = "generate" /\ cg_pc = "returned"
    /\ cf_output' = Archive([targets |-> targets_json], assets)
    /\ cf_pc' = "done"
    /\ cf_trace' = Append(cf_trace, "write_sb3")
    /\ UNCHANGED <<cf_input, cf_project, cf_error, cgVars, semVars, irVars, psVars, first_run>>

\* the exception of resolve_project_from_path leaves compile_file
CfResolveRaised ==
    /\ cf_pc = "resolve" /\ ir_pc = "raised"
    /\ cf_error' = ir_result.err
    /\ cf_pc' = "raised"
    /\ UNCHANGED <<cf_input, cf_project, cf_output, cf_trace, cgVars, semVars, irVars, psVars, first_run>>

\* the SemanticError of analyze leaves compile_file
CfAnalyzeRaised ==
    /\ cf_pc = "analyze" /\ sem_pc = "rejected"
    /\ cf_error' = sem_result
    /\ cf_pc' = "raised"
    /\ UNCHANGED <<cf_input, cf_project, cf_output, cf_trace, cgVars, semVars, irVars, psVars, first_run>>

\* the CodegenError of generate_project_json leaves compile_file
CfGenerateRaised ==
    /\ cf_pc = "generate" /\ cg_pc = "raised"
    /\ cf_error' = cg_error
    /\ cf_pc' = "raised"
    /\ UNCHANGED <<cf_input, cf_project, cf_output, cf_trace, cgVars, semVars, irVars, psVars, first_run>>

InitCompile ==
    /\ \E in \in CompileInputs :
          /\ fs = in.fs
          /\ disk = in.disk
          /\ cf_input = [input_path |-> in.input_path, scale_svgs |-> in.scale_svgs, output_before |-> in.output]
          /\ cf_output = in.output
    /\ cf_pc = "start" /\ cf_project = Project(<<>>) /\ cf_error = NoError /\ cf_trace = <<>>
    /\ ir_entry = <<>> /\ ir_pc = "idle" /\ ir_frames = <<>> /\ ir_stack = <<>>
    /\ ir_cache = EmptyMap /\ ir_result = NoResult /\ ir_reads = <<>>
    /\ SemIdle /\ PsIdle /\ OneRun
    /\ project = Project(<<>>) /\ scale_svgs = FALSE /\ sprite_layer = 1
    /\ cg_pc = "idle" /\ id_counter = 0 /\ broadcast_ids = EmptyMap /\ minted = <<>>
    /\ ordered = <<>> /\ targets_json = <<>> /\ assets = EmptyMap /\ cg_error = NoError

NextCompile ==
    \/ CfResolve \/ CfAnalyze \/ CfGenerate \/ CfWrite
    \/ CfResolveRaised \/ CfAnalyzeRaised \/ CfGenerateRaised
    \/ NextImports \/ SemAnalyze \/ NextCodegen

SpecCompile == InitCompile /\ [][NextCompile]_vars

\* IrRead seen from outside: it is the one step that appends to ir_reads, and it can be
\* taken whenever _resolve_file is entered for a path neither cached nor on the stack
IrReadStep ==
    /\ ir_pc = "run" /\ ir_frames # <<>> /\ Top.pc = "enter"
    /\ Top.path \notin DOMAIN ir_cache
    /\ ~InSeq(ir_stack, Top.path)
    /\ ir_reads' = Append(ir_reads, Top.path)

\* resolve_project_from_path runs on one thread and is never suspended: whenever it can
\* take its next step it takes it
FairSpecCompile ==
    /\ SpecCompile
    /\ WF_vars(IrBegin \/ IrCached \/ IrCycle \/ IrImport \/ IrValidate \/ IrReturn \/ IrFinish)
    /\ WF_ir_reads(IrReadStep)

-----------------------------------------------------------------------------
(* Properties of compile_file.                                              *)

\* compile_file was given the file m holding `source` and has ended, by returning or raising
Compiled(source) ==
    /\ cf_input.input_path = File_m /\ File_m \in DOMAIN fs /\ fs[File_m] = source
    /\ cf_pc \in {"done", "raised"}

\* C7 as stated: compiling the sprite whose event script calls `greet ()` on line 3,
\* before the `define greet () say ("hi") end` of line 4, fails with the SemanticError
\* of a forward call, reported at the call line and citing the definition line.
C7_EmptyParensCallIsSemanticError ==
    \A hat \in Hats :
        Compiled(ForwardSource(hat, Str("greet ()"), Str("define greet () say (\"hi\") end"))) =>
            /\ cf_pc = "raised"
            /\ cf_error = SemanticError("used before it is defined", 3, 4)

\* C7: compiling a sprite whose event script calls the zero-parameter procedure as
\* `greet`, without parentheses, on line 3, before the `define greet say ("hi") end`
\* of line 4 (the body on the define's line or on the lines after it), fails with the
\* SemanticError of a forward call at the call line, citing the definition line; with
\* the call written `greet ()` the compile fails with the ParseError "Expected
\* expression." at the `)` of the call, whatever the define looks like.
C7_ForwardCallRejected ==
    \A hat \in Hats :
        /\ \A define \in {Str("define greet say (\"hi\") end"), Str("define greet\nsay (\"hi\")\nend")} :
              Compiled(ForwardSource(hat, Str("greet"), define)) =>
                  /\ cf_pc = "raised"
                  /\ cf_error = SemanticError("used before it is defined", 3, 4)
        /\ \A define \in DefineForms :
              Compiled(ForwardSource(hat, Str("greet ()"), define)) =>
                  /\ cf_pc = "raised"
                  /\ cf_error = ParseError("Expected expression.", 3, 8)

\* the compile of the forward call `greet` has raised the SemanticError
C7_Witness ==
    /\ Compiled(ForwardSource(Str("when flag clicked"), Str("greet"), Str("define greet say (\"hi\") end")))
    /\ cf_error.kind = "SemanticError"
    /\ cf_trace = <<"resolve_project_from_path", "analyze">>

\* the calls of compile_file, in the order of its body
CompileCalls == <<"resolve_project_from_path", "analyze", "generate_project_json", "write_sb3">>

\* C8: compile_file calls resolve_project_from_path, analyze, generate_project_json and
\* write_sb3 in that order, each at most once (no retry); write_sb3 is called only when
\* the three calls before it have returned without an exception; as long as write_sb3
\* has not been called the output path is as it was before the compile (absent, or the
\* old archive); and when an exception has left compile_file, write_sb3 was not called.
C8_WriteOnlyAfterAllReturned ==
    /\ Len(cf_trace) <= Len(CompileCalls) /\ cf_trace = SubSeq(CompileCalls, 1, Len(cf_trace))
    /\ InSeq(cf_trace, "write_sb3") =>
          /\ ir_pc = "done" /\ ir_result.err = NoError
          /\ sem_pc = "accepted" /\ sem_result = NoError
          /\ cg_pc = "returned" /\ cg_error = NoError
          /\ cf_pc = "done" /\ cf_error = NoError
    /\ ~InSeq(cf_trace, "write_sb3") => cf_output = cf_input.output_before
    /\ (cf_pc = "raised" \/ ir_pc = "raised" \/ sem_pc = "rejected" \/ cg_pc = "raised") =>
          ~InSeq(cf_trace, "write_sb3")
    /\ cf_pc = "raised" => cf_error # NoError

\* generate_project_json raised after the two calls before it returned, and the archive
\* an earlier run left at the output path is still there
C8_Witness ==
    /\ cf_pc = "raised" /\ cf_error.kind = "CodegenError"
    /\ cf_trace = SubSeq(CompileCalls, 1, 3)
    /\ cf_input.output_before = OldArchive /\ cf_output = OldArchive

-----------------------------------------------------------------------------
(* Properties of the import resolver.                                       *)

\* _resolve_file is entered for a path that is on the stack
EntersFileOnStack == ir_pc = "run" /\ ir_frames # <<>> /\ Top.pc = "enter" /\ InSeq(ir_stack, Top.path)

\* `cycle` lists the stack from the first occurrence of `path` to its top, then `path`
NamesCycle(cycle, stack, path) ==
    \E first \in 1..Len(stack) :
        /\ stack[first] = path
        /\ \A below \in 1..(first - 1) : stack[below] # path
        /\ Len(cycle) = Len(stack) - first + 2
        /\ \A i \in 1..(Len(cycle) - 1) : cycle[i] = stack[first + i - 1]
        /\ cycle[Len(cycle)] = path

\* C9: a call of resolve_project_from_path ends, by returning or by raising, for every
\* import graph; and whenever _resolve_file is entered for a file that is on the stack
\* of active calls (a file importing itself included) the next step raises
\* ImportResolutionError "Circular import detected", naming the stack from the first
\* occurrence of that file to the top of the stack and then that file again.
C9_TerminatesAndNamesCycle ==
    /\ (ir_pc = "start") ~> (ir_pc \in {"done", "raised"})
    /\ [][EntersFileOnStack =>
              /\ ir_pc' = "raised"
              /\ ir_result'.err = ImportResolutionError("Circular import detected", 0)
              /\ NamesCycle(ir_result'.cycle, ir_stack, Top.path)]_vars

\* a imports b, b imports c, c imports b: the error names b, c, b and not a
C9_Witness ==
    /\ ir_pc = "raised" /\ ir_result.err.what = "Circular import detected"
    /\ ir_result.cycle = <<File_b, File_c, File_b>>
    /\ ir_reads = <<File_a, File_b, File_c>>

\* the import lines of the file at `path`
ImportsOf(path) == ExtractImports(fs[path]).imports

\* the targets the file at `path` declares itself, not those it imports
OwnTargets(path) == ParseLocalTargets(ExtractImports(fs[path]).source).targets

\* the file at `path`, imported by `spec`, declares exactly one sprite and no stage,
\* and the sprite has the name of the import line, letter case included
ImportMatches(spec, path) ==
    /\ Cardinality({t \in 1..Len(OwnTargets(path)) : ~OwnTargets(path)[t].is_stage}) = 1
    /\ Cardinality({t \in 1..Len(OwnTargets(path)) : OwnTargets(path)[t].is_stage}) = 0
    /\ \A t \in 1..Len(OwnTargets(path)) : OwnTargets(path)[t].name = spec.sprite_name

\* the call of _resolve_file for the current import of the innermost frame has returned
ImportReturned == ir_pc = "run" /\ ir_frames # <<>> /\ Top.pc = "loop" /\ Top.waiting

\* C10: when resolve_project_from_path returns, every import line of every file
\* resolved names a file whose own targets are exactly one sprite and no stage, the
\* sprite having the name of the import line, letter case included; and when the call
\* for an import has returned, the import loop goes on to the next import if the
\* imported file is such a file and otherwise raises ImportResolutionError.
C10_ImportNeedsOneMatchingSprite ==
    /\ [](ir_pc = "done" =>
            \A path \in DOMAIN ir_cache :
                \A k \in 1..Len(ImportsOf(path)) :
                    ImportMatches(ImportsOf(path)[k], ResolvePath(ImportsOf(path)[k].relative_path)))
    /\ [][ImportReturned =>
              IF ImportMatches(Top.imports[Top.idx + 1], ResolvePath(Top.imports[Top.idx + 1].relative_path))
              THEN /\ ir_pc' = "run" /\ Len(ir_frames') = Len(ir_frames)
                   /\ ir_frames'[Len(ir_frames)].idx = Top.idx + 1
              ELSE /\ ir_pc' = "raised"
                   /\ ir_result'.err.kind = "ImportResolutionError"]_vars

\* resolution returned for a file that imports [Cat] from b, where b declares the
\* sprite Cat and itself imports the sprite C from c
C10_Witness ==
    /\ ir_pc = "done"
    /\ File_b \in DOMAIN ir_cache /\ File_m \in DOMAIN ir_cache
    /\ Len(ir_cache[File_b].local_targets) = 1
    /\ Len(ir_cache[File_b].combined_targets) = 2
    /\ Len(ir_result.project.targets) = 3

-----------------------------------------------------------------------------
(* Properties of analyze: names.                                            *)

\* no two of `names` are equal when letter case is ignored
DistinctNames(names) ==
    \A i \in 1..Len(names) : \A j \in 1..Len(names) : i # j => Lower(names[i]) # Lower(names[j])

NamesOf(nodes) == [i \in 1..Len(nodes) |-> nodes[i].name]

UniquelyNamed(proj) ==
    /\ Cardinality({t \in 1..Len(proj.targets) : proj.targets[t].is_stage}) <= 1
    /\ DistinctNames(NamesOf(proj.targets))
    /\ \A t \in 1..Len(proj.targets) :
          /\ DistinctNames(NamesOf(proj.targets[t].variables))
          /\ DistinctNames(NamesOf(proj.targets[t].lists))
          /\ DistinctNames(NamesOf(proj.targets[t].procedures))
          /\ \A p \in 1..Len(proj.targets[t].procedures) :
                DistinctNames(proj.targets[t].procedures[p].params)

\* C11: a project analyze accepts has at most one stage, target names that are pairwise
\* distinct when letter case is ignored, and in each target variable names, list names
\* and procedure names that are each pairwise distinct when letter case is ignored, as
\* are the parameter names of each procedure; a project without one of these
\* properties is rejected, and a rejection is a SemanticError.
C11_AcceptedNamesAreUnique ==
    /\ sem_pc = "accepted" => UniquelyNamed(sem_project)
    /\ (sem_pc \in {"accepted", "rejected"} /\ ~UniquelyNamed(sem_project)) =>
          sem_pc = "rejected" /\ sem_result.kind = "SemanticError"

\* an accepted sprite with two variables and two lists, a variable and a list sharing
\* a name
C11_Witness ==
    /\ sem_pc = "accepted"
    /\ \E t \in 1..Len(sem_project.targets) :
          /\ Len(sem_project.targets[t].variables) = 2
          /\ Len(sem_project.targets[t].lists) = 2
          /\ sem_project.targets[t].variables[1].name = sem_project.targets[t].lists[1].name

-----------------------------------------------------------------------------
(* Properties of analyze: scopes.                                           *)

RECURSIVE VarsReadIn(_)
\* the names of the VarExpr nodes of an expression, at any depth
VarsReadIn(expr) ==
    CASE expr.type = "VarExpr" -> {expr.name}
      [] expr.type = "UnaryExpr" -> VarsReadIn(expr.operand)
      [] expr.type = "BinaryExpr" -> VarsReadIn(expr.left) \cup VarsReadIn(expr.right)
      [] expr.type = "PickRandomExpr" -> VarsReadIn(expr.start) \cup VarsReadIn(expr.end)
      [] expr.type = "ListItemExpr" -> VarsReadIn(expr.index)
      [] expr.type = "ListContainsExpr" -> VarsReadIn(expr.item)
      [] expr.type = "KeyPressedExpr" -> VarsReadIn(expr.key)
      [] OTHER -> {}

RECURSIVE ListsNamedIn(_)
\* the list names of the item, length and contains reporters of an expression
ListsNamedIn(expr) ==
    CASE expr.type = "ListLengthExpr" -> {expr.list_name}
      [] expr.type = "ListItemExpr" -> {expr.list_name} \cup ListsNamedIn(expr.index)
      [] expr.type = "ListContainsExpr" -> {expr.list_name} \cup ListsNamedIn(expr.item)
      [] expr.type = "UnaryExpr" -> ListsNamedIn(expr.operand)
      [] expr.type = "BinaryExpr" -> ListsNamedIn(expr.left) \cup ListsNamedIn(expr.right)
      [] expr.type = "PickRandomExpr" -> ListsNamedIn(expr.start) \cup ListsNamedIn(expr.end)
      [] expr.type = "KeyPressedExpr" -> ListsNamedIn(expr.key)
      [] OTHER -> {}

\* the expressions a statement carries itself (not those of the statements nested in it)
ExprsOfStatement(stmt) ==
    CASE stmt.type = "SetVarStmt" -> <<stmt.value>>
      [] stmt.type = "ChangeVarStmt" -> <<stmt.delta>>
      [] stmt.type \in SingleExprStmts -> <<SingleExprOf(stmt)>>
      [] stmt.type = "GoToXYStmt" -> <<stmt.x, stmt.y>>
      [] stmt.type = "AddToListStmt" -> <<stmt.item>>
      [] stmt.type = "DeleteOfListStmt" -> <<stmt.index>>
      [] stmt.type \in {"InsertAtListStmt", "ReplaceItemOfListStmt"} -> <<stmt.item, stmt.index>>
      [] stmt.type = "RepeatStmt" -> <<stmt.times>>
      [] stmt.type = "IfStmt" -> <<stmt.condition>>
      [] stmt.type = "ProcedureCallStmt" -> stmt.args
      [] OTHER -> <<>>

\* the statement lists nested in a statement
BodiesOfStatement(stmt) ==
    CASE stmt.type \in {"RepeatStmt", "ForeverStmt"} -> <<stmt.body>>
      [] stmt.type = "IfStmt" -> <<stmt.then_body, stmt.else_body>>
      [] OTHER -> <<>>

ListStmts ==
    {"AddToListStmt", "DeleteOfListStmt", "DeleteAllOfListStmt", "InsertAtListStmt", "ReplaceItemOfListStmt"}

RECURSIVE VarsReadInStatements(_)
\* the names of the variables read by a statement list, at any depth
VarsReadInStatements(statements) ==
    UNION {UNION {VarsReadIn(ExprsOfStatement(statements[k])[i])
                     : i \in 1..Len(ExprsOfStatement(statements[k]))}
           \cup UNION {VarsReadInStatements(BodiesOfStatement(statements[k])[i])
                          : i \in 1..Len(BodiesOfStatement(statements[k]))}
             : k \in 1..Len(statements)}

RECURSIVE ListsNamedInStatements(_)
\* the names of the lists a statement list refers to, at any depth
ListsNamedInStatements(statements) ==
    UNION {(IF statements[k].type \in ListStmts THEN {statements[k].list_name} ELSE {})
           \cup UNION {ListsNamedIn(ExprsOfStatement(statements[k])[i])
                          : i \in 1..Len(ExprsOfStatement(statements[k]))}
           \cup UNION {ListsNamedInStatements(BodiesOfStatement(statements[k])[i])
                          : i \in 1..Len(BodiesOfStatement(statements[k]))}
             : k \in 1..Len(statements)}

LoweredNames(names) == {Lower(n) : n \in names}
DeclaredNames(decls) == {Lower(decls[i].name) : i \in 1..Len(decls)}
ParamNames(procedure) == {Lower(procedure.params[i]) : i \in 1..Len(procedure.params)}

\* C12: in a project analyze accepts, every variable read at any depth of a procedure
\* body names, letter case ignored, a parameter of that procedure or a variable of the
\* enclosing target; every variable read in an event script names a variable of the
\* enclosing target; and every list named by a list statement or a list reporter, in a
\* procedure body or a script, is a list of the enclosing target.
C12_ReadsResolveInScope ==
    sem_pc = "accepted" =>
        \A t \in 1..Len(sem_project.targets) :
            LET target == sem_project.targets[t] IN
            /\ \A p \in 1..Len(target.procedures) :
                  /\ LoweredNames(VarsReadInStatements(target.procedures[p].body))
                        \subseteq ParamNames(target.procedures[p]) \cup DeclaredNames(target.variables)
                  /\ LoweredNames(ListsNamedInStatements(target.procedures[p].body))
                        \subseteq DeclaredNames(target.lists)
            /\ \A s \in 1..Len(target.scripts) :
                  /\ LoweredNames(VarsReadInStatements(target.scripts[s].body))
                        \subseteq DeclaredNames(target.variables)
                  /\ LoweredNames(ListsNamedInStatements(target.scripts[s].body))
                        \subseteq DeclaredNames(target.lists)

\* an accepted sprite beside a stage: a procedure reads its own parameter, which is
\* not a variable of the sprite, inside a list reporter on a list named in another
\* letter case
C12_Witness ==
    /\ sem_pc = "accepted"
    /\ Len(sem_project.targets) = 2
    /\ \E p \in 1..Len(sem_project.targets[2].procedures) :
          LET procedure == sem_project.targets[2].procedures[p] IN
          /\ Name_n \in VarsReadInStatements(procedure.body)
          /\ Name_n \in ParamNames(procedure) \ DeclaredNames(sem_project.targets[2].variables)
          /\ Name_l \in ListsNamedInStatements(procedure.body)

-----------------------------------------------------------------------------
(* C13: variable fields and reads that name a procedure parameter *)

RECURSIVE VarFieldsIn(_)
\* the `set [v] to` and `change [v] by` statements of a statement list, at any depth
VarFieldsIn(statements) ==
    UNION {(IF statements[k].type \in {"SetVarStmt", "ChangeVarStmt"} THEN {statements[k]} ELSE {})
           \cup UNION {VarFieldsIn(BodiesOfStatement(statements[k])[i])
                          : i \in 1..Len(BodiesOfStatement(statements[k]))}
             : k \in 1..Len(statements)}

\* the variable fields of a procedure body that name one of its parameters
ParamFieldsOf(procedure) ==
    {s \in VarFieldsIn(procedure.body) : Lower(s.var_name) \in ParamNames(procedure)}

ParamFieldError(line) == SemanticError("variable field refers to a procedure parameter", line, 0)

RECURSIVE ReportersIn(_)
\* the names of the variable reads an expression is lowered to a reporter for: all
\* its reads but the key of `key ... pressed?`, which is lowered to a menu
ReportersIn(expr) ==
    CASE expr.type = "VarExpr" -> {expr.name}
      [] expr.type = "UnaryExpr" -> ReportersIn(expr.operand)
      [] expr.type = "BinaryExpr" -> ReportersIn(expr.left) \cup ReportersIn(expr.right)
      [] expr.type = "PickRandomExpr" -> ReportersIn(expr.start) \cup ReportersIn(expr.end)
      [] expr.type = "ListItemExpr" -> ReportersIn(expr.index)
      [] expr.type = "ListContainsExpr" -> ReportersIn(expr.item)
      [] OTHER -> {}

RECURSIVE ReportersInStatements(_)
\* the same for a statement list at any depth; the option of `stop` is lowered to a field
ReportersInStatements(statements) ==
    UNION {UNION {ReportersIn(ExprsOfStatement(statements[k])[i])
                     : i \in IF statements[k].type = "StopStmt" THEN {}
                             ELSE 1..Len(ExprsOfStatement(statements[k]))}
           \cup UNION {ReportersInStatements(BodiesOfStatement(statements[k])[i])
                          : i \in 1..Len(BodiesOfStatement(statements[k]))}
             : k \in 1..Len(statements)}

RECURSIVE RootOf(_, _)
\* the top-level block a block hangs under
RootOf(blocks, id) == IF blocks[id].parent = Null THEN id ELSE RootOf(blocks, blocks[id].parent)

\* the definition block of a procedure among the blocks of its target
DefinitionOf(blocks, procedure) ==
    {d \in DOMAIN blocks :
        /\ blocks[d].opcode = "procedures_definition"
        /\ blocks[blocks[d].inputs[Slot("custom_block")].ref].mutation.proccode
             = Proccode(procedure.name, Len(procedure.params))}

\* the names carried by the reporters of one opcode and field below a top-level block
ReporterNames(blocks, root, opcode, field) ==
    {blocks[id].fields[field][1]
        : id \in {i \in DOMAIN blocks : /\ blocks[i].opcode = opcode
                                        /\ ~blocks[i].shadow
                                        /\ RootOf(blocks, i) = root}}

\* C13: a `set [v] to` or `change [v] by` at any depth of a procedure body whose
\* variable name equals a parameter of that procedure, letter case ignored, makes
\* analyze reject the project, with the dedicated SemanticError at the statement's
\* line when nothing before it is wrong, also when the target declares a variable of
\* that name; the dedicated error is raised for no other reason; and a read of that
\* name in the body is accepted and is emitted as an argument reporter, never as a
\* variable reporter.
C13_ParameterIsNoVariableField ==
    /\ \A t \in 1..Len(project.targets) : \A p \in 1..Len(project.targets[t].procedures) :
          ParamFieldsOf(project.targets[t].procedures[p]) # {} =>
              /\ Analyze(project) # NoError
              /\ project \in ParamFieldProjects =>
                    \E s \in ParamFieldsOf(project.targets[t].procedures[p]) :
                        Analyze(project) = ParamFieldError(s.line)
    /\ Analyze(project).what = "variable field refers to a procedure parameter" =>
          \E t \in 1..Len(project.targets) : \E p \in 1..Len(project.targets[t].procedures) :
              \E s \in ParamFieldsOf(project.targets[t].procedures[p]) :
                  Analyze(project) = ParamFieldError(s.line)
    /\ (/\ project \in ParamFieldProjects
        /\ project.targets[1].procedures[1].body # <<>>
        /\ ParamFieldsOf(project.targets[1].procedures[1]) = {}) => Analyze(project) = NoError
    /\ (Returned /\ Accepted /\ cg_error = NoError) =>
          \A t \in 1..Len(targets_json) :
              LET blocks == targets_json[t].blocks
                  target == ordered[t]
              IN  /\ \A p \in 1..Len(target.procedures) :
                        LET procedure == target.procedures[p]
                            reads == ReportersInStatements(procedure.body)
                        IN  \A d \in DefinitionOf(blocks, procedure) :
                              /\ ReporterNames(blocks, d, "argument_reporter_string_number", "VALUE")
                                   = {x \in reads : Lower(x) \in ParamNames(procedure)}
                              /\ ReporterNames(blocks, d, "data_variable", "VARIABLE")
                                   = {x \in reads : Lower(x) \notin ParamNames(procedure)}
                  /\ \A i \in DOMAIN blocks :
                        (blocks[i].opcode = "argument_reporter_string_number" /\ ~blocks[i].shadow)
                            => blocks[RootOf(blocks, i)].opcode = "procedures_definition"

\* the sprite declares a variable N and its procedure inc (n) reads n inside a
\* repeat that follows a say inside a forever: the project is accepted and emitted, and
\* the body holds an argument reporter for n and no variable reporter
C13_Witness ==
    /\ Returned /\ Accepted /\ cg_error = NoError
    /\ project \in ParamFieldProjects
    /\ Len(project.targets[1].variables) = 2
    /\ \E d \in DOMAIN targets_json[2].blocks :
          LET blocks == targets_json[2].blocks IN
          /\ blocks[d].opcode = "procedures_definition"
          /\ ReporterNames(blocks, d, "argument_reporter_string_number", "VALUE") = {Name_n}
          /\ ReporterNames(blocks, d, "data_variable", "VARIABLE") = {}
          /\ \E i \in DOMAIN blocks :
                /\ blocks[i].opcode = "argument_reporter_string_number" /\ ~blocks[i].shadow
                /\ blocks[blocks[i].parent].opcode = "control_repeat"
                /\ blocks[blocks[blocks[i].parent].parent].opcode = "looks_say"
                /\ blocks[blocks[blocks[blocks[i].parent].parent].parent].opcode = "control_forever"

-----------------------------------------------------------------------------
(* C14: calls name a procedure of their own target and pass one argument per parameter *)

\* the procedures of a target a call names, letter case ignored
CalleesOf(target, call) ==
    {target.procedures[k] : k \in {i \in 1..Len(target.procedures) :
                                     Lower(target.procedures[i].name) = Lower(call.name)}}

\* a call that names no procedure of its target, or passes a number of arguments that
\* differs from the number of parameters of the procedure it names
Miscalled(target, call) ==
    \/ CalleesOf(target, call) = {}
    \/ \E callee \in CalleesOf(target, call) : Len(call.args) # Len(callee.params)

\* C14: analyze rejects every project with a call, at any depth, that names no
\* procedure of the same target or whose argument count differs from the parameter
\* count of its callee, and raises the two errors for such calls only; so in every
\* emitted project each procedures_call block has exactly one input per parameter of
\* its callee.
C14_CallsMatchTheirCallee ==
    /\ (\E t \in 1..Len(project.targets) : \E call \in CallsOfTarget(project.targets[t]) :
            Miscalled(project.targets[t], call)) => Analyze(project).kind = "SemanticError"
    /\ Analyze(project).what \in {"unknown procedure", "argument count"} =>
          \E t \in 1..Len(project.targets) : \E call \in CallsOfTarget(project.targets[t]) :
              /\ call.line = Analyze(project).line
              /\ IF Analyze(project).what = "unknown procedure"
                 THEN CalleesOf(project.targets[t], call) = {}
                 ELSE \E callee \in CalleesOf(project.targets[t], call) :
                         Len(call.args) # Len(callee.params)
    /\ (Returned /\ Accepted /\ cg_error = NoError) =>
          \A t \in 1..Len(targets_json) :
              LET blocks == targets_json[t].blocks IN
              /\ \A id \in DOMAIN blocks :
                    blocks[id].opcode = "procedures_call" =>
                        \E callee \in Range(ordered[t].procedures) :
                            /\ blocks[id].mutation.proccode = Proccode(callee.name, Len(callee.params))
                            /\ Cardinality(DOMAIN blocks[id].inputs) = Len(callee.params)
              /\ Cardinality({id \in DOMAIN blocks : blocks[id].opcode = "procedures_call"})
                   = Cardinality(CallsOfTarget(ordered[t]))

\* an emitted project whose two sprites both define inc: the call of sprite A, written
\* INC inside a repeat, has one input and sprite B has no call
C14_Witness ==
    /\ Returned /\ Accepted /\ cg_error = NoError
    /\ project \in CallProjects
    /\ \E id \in DOMAIN targets_json[2].blocks :
          LET blocks == targets_json[2].blocks IN
          /\ blocks[id].opcode = "procedures_call"
          /\ blocks[blocks[id].parent].opcode = "control_repeat"
          /\ Cardinality(DOMAIN blocks[id].inputs) = 1
          /\ \E call \in CallsOfTarget(project.targets[1]) : call.name # Name_inc
    /\ \A id \in DOMAIN targets_json[3].blocks : targets_json[3].blocks[id].opcode # "procedures_call"

-----------------------------------------------------------------------------
(* C15: a call block carries the signature of the prototype of its callee *)

BlocksWith(blocks, opcode) == {id \in DOMAIN blocks : blocks[id].opcode = opcode}

\* the prototype blocks of a procedure: those a definition block of the target points
\* to whose proccode is the procedure's name followed by one " %s" per parameter
PrototypesOf(blocks, procedure) ==
    {id \in BlocksWith(blocks, "procedures_prototype") :
        blocks[id].mutation.proccode = Proccode(procedure.name, Len(procedure.params))}

\* the call statements of a target that name a procedure, letter case ignored
CallsNaming(target, procedure) ==
    {call \in CallsOfTarget(target) : Lower(call.name) = Lower(procedure.name)}

\* C15: in an emitted project every procedure of a target has one prototype block,
\* whose proccode is the definition's name followed by one " %s" per parameter; the
\* call blocks of the target are, procedure by procedure, as many as the calls that
\* name it in any letter case; and each call block has the proccode and the
\* argumentids of that prototype, and its inputs are keyed by exactly those argument
\* IDs, which are also the keys of the prototype's inputs.
C15_CallCarriesPrototypeSignature ==
    (Returned /\ Accepted /\ cg_error = NoError) =>
        \A t \in 1..Len(targets_json) :
            LET blocks == targets_json[t].blocks
                target == ordered[t]
                CallBlocksOf(procedure) ==
                    {id \in BlocksWith(blocks, "procedures_call") :
                        blocks[id].mutation.proccode = Proccode(procedure.name, Len(procedure.params))}
            IN  /\ \A k \in 1..Len(target.procedures) :
                      LET procedure == target.procedures[k] IN
                      /\ Cardinality(PrototypesOf(blocks, procedure)) = 1
                      /\ Cardinality(CallBlocksOf(procedure)) = Cardinality(CallsNaming(target, procedure))
                      /\ \A c \in CallBlocksOf(procedure), p \in PrototypesOf(blocks, procedure) :
                            /\ blocks[c].mutation.proccode = blocks[p].mutation.proccode
                            /\ blocks[c].mutation.argumentids = blocks[p].mutation.argumentids
                            /\ DOMAIN blocks[c].inputs = Range(blocks[p].mutation.argumentids.items)
                            /\ DOMAIN blocks[c].inputs \subseteq DOMAIN blocks[p].inputs
                            /\ Len(blocks[p].mutation.argumentids.items) = Len(procedure.params)
                            /\ NoRepeats(blocks[p].mutation.argumentids.items)
                /\ BlocksWith(blocks, "procedures_call")
                     = UNION {CallBlocksOf(target.procedures[k]) : k \in 1..Len(target.procedures)}

\* an emitted project in which sprite A calls HELLO with two arguments, the second a
\* variable: the call block has the proccode "hello %s %s" of the definition and two
\* inputs, one of them a reporter
C15_Witness ==
    /\ Returned /\ Accepted /\ cg_error = NoError
    /\ project \in CallProjects
    /\ \E call \in CallsOfTarget(project.targets[1]) : call.name = <<"H", "E", "L", "L", "O">>
    /\ \E c \in BlocksWith(targets_json[2].blocks, "procedures_call") :
          LET block == targets_json[2].blocks[c] IN
          /\ block.mutation.proccode = Name_hello \o ProcPlaceholders \o ProcPlaceholders
          /\ Cardinality(DOMAIN block.inputs) = 2
          /\ \E a \in DOMAIN block.inputs : block.inputs[a].mode = 2

-----------------------------------------------------------------------------
(* C16: the stage comes first in every emitted project.json *)

\* the targets of the project.json written by compile_file
Emitted == cf_output.project_json.targets

NamesIn(targets) == [i \in 1..Len(targets) |-> targets[i].name]

\* the entry file declares a stage and imports the sprite Cat
StageImportingCat ==
    /\ cf_input.input_path = File_m
    /\ fs[File_m] = ImportLine(Str(" Cat "), File_b) \o Str("stage\nend\n")
    /\ fs[File_b] = SpriteText(Str("Cat"))

\* C16: every project.json compile_file writes has exactly one target with isStage
\* true; it is the first target and has layerOrder 0, and it is the stage the resolved
\* project declares, wherever it stands there, or else a synthesized one; the other
\* targets are the sprites of the resolved project in their order with layerOrder 1..n.
\* An entry file that declares a stage and imports the sprite Cat gives Stage, Cat.
C16_StageFirstThenSprites ==
    cf_pc = "done" =>
        LET sprites == SelectSeq(cf_project.targets, LAMBDA t : ~t.is_stage)
            stages  == SelectSeq(cf_project.targets, LAMBDA t : t.is_stage)
        IN  /\ Cardinality({i \in 1..Len(Emitted) : Emitted[i].isStage}) = 1
            /\ Emitted[1].isStage /\ Emitted[1].layerOrder = 0
            /\ Len(stages) <= 1
            /\ stages # <<>> => Emitted[1].name = stages[1].name
            /\ stages = <<>> => \A i \in 1..Len(sprites) : Lower(Emitted[1].name) # Lower(sprites[i].name)
            /\ Len(Emitted) = Len(sprites) + 1
            /\ \A i \in 1..Len(sprites) :
                  /\ Emitted[i + 1].name = sprites[i].name
                  /\ ~Emitted[i + 1].isStage
                  /\ Emitted[i + 1].layerOrder = i
            /\ StageImportingCat => NamesIn(Emitted) = <<Str("Stage"), Str("Cat")>>

\* the entry file declares a stage after its import of Cat: the resolved project is
\* Cat, Stage and the written project.json is Stage, Cat
C16_Witness ==
    /\ cf_pc = "done"
    /\ StageImportingCat
    /\ NamesIn(cf_project.targets) = <<Str("Cat"), Str("Stage")>>
    /\ NamesIn(Emitted) = <<Str("Stage"), Str("Cat")>>
    /\ Emitted[2].layerOrder = 1

-----------------------------------------------------------------------------
(* C17: imported targets come first, depth-first and in the order of the import lines *)

RECURSIVE ExpectedNames(_)
\* the names of the combined target list of a file, computed from the text of the files:
\* for each import line in textual order the list of the imported file, then the names
\* of the file's own targets
ExpectedNames(path) ==
    LET imports == ImportsOf(path)
        From(k) == ExpectedNames(ResolvePath(imports[k].relative_path))
        Upto[k \in 0..Len(imports)] == IF k = 0 THEN <<>> ELSE Upto[k - 1] \o From(k)
    IN  Upto[Len(imports)] \o NamesIn(OwnTargets(path))

\* C17: whenever _resolve_file returns for a file, the combined target list it caches
\* is, for each import line of the file in textual order, the full combined list of
\* the imported file (that file's imports first, depth-first), followed by the file's
\* own targets in source order, so no own target precedes an imported one; and the
\* project resolve_project_from_path returns is that list of the entry file.
C17_ImportsFirstDepthFirst ==
    /\ [][\A path \in DOMAIN ir_cache' \ DOMAIN ir_cache :
             LET resolved == ir_cache'[path]
                 n == Len(resolved.combined_targets) - Len(resolved.local_targets)
             IN  /\ NamesIn(resolved.combined_targets) = ExpectedNames(path)
                 /\ NamesIn(resolved.local_targets) = NamesIn(OwnTargets(path))
                 /\ n >= 0
                 /\ SubSeq(resolved.combined_targets, n + 1, Len(resolved.combined_targets))
                      = resolved.local_targets]_vars
    /\ [](ir_pc = "done" =>
            NamesIn(ir_result.project.targets) = ExpectedNames(ResolvePath(ir_entry)))

\* resolution returned for a that imports b, where b imports c: the project is C, B, A
\* and the list cached for b is C, B
C17_Witness ==
    /\ ir_pc = "done"
    /\ ir_entry = File_a
    /\ Len(ImportsOf(File_a)) = 1 /\ Len(ImportsOf(File_b)) = 1
    /\ NamesIn(ir_result.project.targets) = <<Str("C"), Str("B"), Str("A")>>
    /\ NamesIn(ir_cache[File_b].combined_targets) = <<Str("C"), Str("B")>>

-----------------------------------------------------------------------------
(* C18: where an event script ends *)

ScriptStops == {Str("when"), Str("define"), Str("var"), Str("list"), Str("costume"), Str("end")}

\* the first token after position k that is not a NEWLINE (the last token is the EOF)
NextSignificant(tokens, k) ==
    tokens[CHOOSE j \in k + 1..Len(tokens) :
              /\ tokens[j].type # "NEWLINE"
              /\ \A i \in k + 1..j - 1 : tokens[i].type = "NEWLINE"]

\* the parse of the event script whose `when` is token number i, against the parse of
\* its body alone: the body stops, with nothing consumed, at a token that starts
\* something else; if that token is `end` and the next token that is not a NEWLINE is
\* neither `sprite`, `stage` nor the EOF the script takes the `end`, and otherwise it
\* takes nothing; the tokens stay as they were
EventScriptEndsAt(tokens, i) ==
    LET p0     == [Parser(tokens) EXCEPT !.index = i]
        header == ParseEventHeader(p0)
        body   == ParseStatementBlock(SkipNewlines(header.p), {"when", "define", "var", "list", "costume", "end"}, FALSE)
        script == ParseEventScript(p0, tokens[i].line, tokens[i].column)
        stop   == body.p.tokens[body.p.index + 1]
        after  == NextSignificant(tokens, body.p.index + 1)
        taken  == /\ stop.type = "KEYWORD" /\ stop.value = Str("end")
                  /\ after.type # "EOF"
                  /\ ~(after.type = "KEYWORD" /\ after.value \in {Str("sprite"), Str("stage")})
    IN  body.p.err = NoError =>
            /\ stop.type = "EOF" \/ (stop.type = "KEYWORD" /\ stop.value \in ScriptStops)
            /\ script.p.err = NoError
            /\ script.p.tokens = tokens
            /\ script.node.body = body.nodes
            /\ script.p.index = IF taken THEN body.p.index + 1 ELSE body.p.index

EventScriptsEndRight(source) ==
    LET lexed == Tokenize(source) IN
    lexed.err = NoError =>
        \A i \in 1..Len(lexed.tokens) :
            (lexed.tokens[i].type = "KEYWORD" /\ lexed.tokens[i].value = Str("when"))
                => EventScriptEndsAt(lexed.tokens, i)

\* the outcome of compiling sprite A with one say in its script and the given ending
EndsWith(tail) == Compiled(EventEndSource(Str("say (1)\n"), tail))
ParsedTargets(n, scripts) ==
    /\ cf_error.kind # "ParseError"
    /\ Len(cf_project.targets) = n
    /\ Len(cf_project.targets[1].scripts) = scripts
    /\ Len(cf_project.targets[1].scripts[1].body) = 1

\* C18: in every file the resolver reads, every event script's body ends, with
\* nothing consumed, at the next `when`, `define`, `var`, `list`, `costume` or `end`
\* (or at the end of the file); an `end` there is consumed as the script's terminator
\* exactly when the next token that is not a NEWLINE is neither `sprite`, `stage` nor EOF,
\* and is otherwise left to close the target; the tokens are only looked at. So one
\* `end` and two `end`s give the same sprite, before the end of the file and before
\* another target, a third `end` is a parse error, and a script may end at the next
\* `when` with or without an `end` of its own.
C18_EventScriptEnd ==
    /\ [][\A k \in Len(ir_reads) + 1..Len(ir_reads') : EventScriptsEndRight(fs[ir_reads'[k]])]_vars
    /\ [](EndsWith(Str("end\n")) => ParsedTargets(1, 1))
    /\ [](EndsWith(Str("end\nend\n")) => ParsedTargets(1, 1))
    /\ [](EndsWith(Str("end\nend\nend\n")) => cf_error.kind = "ParseError")
    /\ [](EndsWith(Str("end\nsprite B\nend\n")) => ParsedTargets(2, 1))
    /\ [](EndsWith(Str("end\nend\nsprite B\nend\n")) => ParsedTargets(2, 1))
    /\ [](EndsWith(Str("when this sprite clicked\nend\n")) => ParsedTargets(1, 2))
    /\ [](EndsWith(Str("end\nwhen this sprite clicked\nsay (2)\nend\nend\n")) => ParsedTargets(1, 2))
    /\ [](EndsWith(Str("end\nsay (2)\nend\n")) => cf_error.kind = "ParseError")

\* a compiled sprite whose first script ends with its own `end` before a second
\* `when`, whose script ends with an `end` too, before the `end` of the sprite
C18_Witness ==
    /\ EndsWith(Str("end\nwhen this sprite clicked\nsay (2)\nend\nend\n"))
    /\ cf_pc = "done"
    /\ Len(cf_project.targets[1].scripts) = 2
    /\ Len(cf_project.targets[1].scripts[2].body) = 1

-----------------------------------------------------------------------------
(* C19: a condition between angle brackets *)

\* the blocks of sprite A in the project.json written
SpriteBlocks == cf_output.project_json.targets[2].blocks

\* the script of sprite A was parsed to one if statement whose condition is
\* name < 10, and was written as one control_if_else block whose CONDITION is [2, id],
\* id being an operator_lt block below it with OPERAND1 a reporter of the variable and
\* OPERAND2 the literal 10
LowersToLt(name) ==
    /\ cf_pc = "done"
    /\ LET body == cf_project.targets[1].scripts[1].body IN
       /\ Len(body) = 1 /\ body[1].type = "IfStmt"
       /\ body[1].condition.type = "BinaryExpr" /\ body[1].condition.op = "<"
       /\ body[1].condition.left.type = "VarExpr" /\ body[1].condition.left.name = name
       /\ body[1].condition.right.type = "NumberExpr" /\ body[1].condition.right.value = 10
    /\ Cardinality(BlocksWith(SpriteBlocks, "control_if_else")) = 1
    /\ Cardinality(BlocksWith(SpriteBlocks, "operator_lt")) = 1
    /\ \A c \in BlocksWith(SpriteBlocks, "control_if_else") :
          /\ Slot("CONDITION") \in DOMAIN SpriteBlocks[c].inputs
          /\ LET condition == SpriteBlocks[c].inputs[Slot("CONDITION")] IN
             /\ condition.mode = 2
             /\ condition.ref \in BlocksWith(SpriteBlocks, "operator_lt")
             /\ LET lt == SpriteBlocks[condition.ref] IN
                /\ lt.parent = c
                /\ DOMAIN lt.inputs = {Slot("OPERAND1"), Slot("OPERAND2")}
                /\ lt.inputs[Slot("OPERAND1")].mode = 2
                /\ lt.inputs[Slot("OPERAND1")].ref \in BlocksWith(SpriteBlocks, "data_variable")
                /\ SpriteBlocks[lt.inputs[Slot("OPERAND1")].ref].fields.VARIABLE[1] = name
                /\ SpriteBlocks[lt.inputs[Slot("OPERAND1")].ref].parent = condition.ref
                /\ lt.inputs[Slot("OPERAND2")] = LiteralInput([kind |-> 4, text |-> Str("10")])

IfAngleCompiled(name) ==
    \E quoted \in BOOLEAN, t \in IfAngleBodies, e \in IfAngleBodies : Compiled(IfAngleSource(name, quoted, t, e))

\* C19 as stated: for a variable of any name, x included, `if <x < 10> then ... else
\* ... end` is accepted with the outer < and > stripped and lowers to a
\* control_if_else block whose CONDITION is [2, id], id an operator_lt block with
\* OPERAND1 the variable and OPERAND2 the literal 10.
C19_AngleConditionLowersToLt ==
    \A name \in IfAngleNames : IfAngleCompiled(name) => LowersToLt(name)

\* C19: for a variable whose name is not a keyword of the language, `if <name < 10>
\* then ... else ... end` is accepted with the outer < and > stripped and lowers to a
\* control_if_else block whose CONDITION is [2, id], id an operator_lt block with
\* OPERAND1 the variable and OPERAND2 the literal 10.
C19_AngleConditionOnIdentifier ==
    \A name \in IfAngleNames :
        (Lower(name) \notin KEYWORDS /\ IfAngleCompiled(name)) => LowersToLt(name)

\* the sprite declares score and compares it between angle brackets, with a say in
\* both branches; the project.json is written
C19_Witness ==
    /\ Compiled(IfAngleSource(Str("score"), FALSE, Str("say (1)\n"), Str("say (1)\n")))
    /\ LowersToLt(Str("score"))
    /\ \A c \in BlocksWith(SpriteBlocks, "control_if_else") :
          {Slot("SUBSTACK"), Slot("SUBSTACK2")} \subseteq DOMAIN SpriteBlocks[c].inputs

-----------------------------------------------------------------------------
(* The lowering of `<=`, `>=`, `!=` and unary `-` *)

RECURSIVE ReporterCount(_)
\* the number of reporter blocks the expansion of expr holds: a literal is none, `a <= b`
\* and `a >= b` are three operators over two copies of a and b, `a != b` two over one
ReporterCount(expr) ==
    CASE expr.type \in {"NumberExpr", "StringExpr"} -> 0
      [] expr.type = "UnaryExpr" -> 1 + ReporterCount(expr.operand)
      [] expr.type = "BinaryExpr" ->
            IF expr.op \in {"<=", ">="} THEN 3 + 2 * (ReporterCount(expr.left) + ReporterCount(expr.right))
            ELSE IF expr.op = "!=" THEN 2 + ReporterCount(expr.left) + ReporterCount(expr.right)
            ELSE 1 + ReporterCount(expr.left) + ReporterCount(expr.right)
      [] OTHER -> 1

RECURSIVE IsUnder(_, _, _)
\* block i lies under block a, following parent
IsUnder(blocks, i, a) ==
    /\ blocks[i].parent # Null
    /\ blocks[i].parent \in DOMAIN blocks
    /\ (blocks[i].parent = a \/ IsUnder(blocks, blocks[i].parent, a))

RECURSIVE Lowered(_, _, _, _)
\* `input` of block `user` carries expr: a literal as [1, literal], anything else as
\* [2, id] of a block whose parent is user and which is the operator the claim names
Lowered(blocks, input, expr, user) ==
    IF expr.type \in {"NumberExpr", "StringExpr"}
    THEN input = LiteralInput(LiteralOf(expr))
    ELSE
    /\ input.mode = 2 /\ input.lit = NoLiteral
    /\ input.ref \in DOMAIN blocks
    /\ LET id    == input.ref
           block == blocks[id]
           Zero  == LiteralInput([kind |-> 4, text |-> <<"0">>])
           \* the block is `opcode` over the two operands under the keys k1 and k2
           Operator(opcode, k1, left, k2, right) ==
               /\ block.opcode = opcode
               /\ DOMAIN block.inputs = {Slot(k1), Slot(k2)}
               /\ Lowered(blocks, block.inputs[Slot(k1)], left, id)
               /\ Lowered(blocks, block.inputs[Slot(k2)], right, id)
               /\ block.inputs[Slot(k1)].mode = 2 /\ block.inputs[Slot(k2)].mode = 2
                     => block.inputs[Slot(k1)].ref # block.inputs[Slot(k2)].ref
       IN  /\ block.parent = user /\ ~block.shadow /\ ~block.topLevel /\ block.next = Null
           /\ CASE expr.type = "VarExpr" ->
                      /\ block.inputs = EmptyMap
                      /\ \/ block.opcode = "data_variable" /\ block.fields.VARIABLE[1] = expr.name
                         \/ block.opcode = "argument_reporter_string_number" /\ block.fields.VALUE[1] = expr.name
                [] expr.type = "UnaryExpr" /\ expr.op = "-" ->
                      /\ block.opcode = "operator_subtract"
                      /\ DOMAIN block.inputs = {Slot("NUM1"), Slot("NUM2")}
                      /\ block.inputs[Slot("NUM1")] = Zero
                      /\ Lowered(blocks, block.inputs[Slot("NUM2")], expr.operand, id)
                [] expr.type = "UnaryExpr" /\ expr.op = "not" ->
                      /\ block.opcode = "operator_not"
                      /\ DOMAIN block.inputs = {Slot("OPERAND")}
                      /\ Lowered(blocks, block.inputs[Slot("OPERAND")], expr.operand, id)
                [] expr.type = "BinaryExpr" /\ expr.op = "<=" ->
                      Operator("operator_or", "OPERAND1", Binary("<", expr.left, expr.right),
                                              "OPERAND2", Binary("=", expr.left, expr.right))
                [] expr.type = "BinaryExpr" /\ expr.op = ">=" ->
                      Operator("operator_or", "OPERAND1", Binary(">", expr.left, expr.right),
                                              "OPERAND2", Binary("=", expr.left, expr.right))
                [] expr.type = "BinaryExpr" /\ expr.op = "!=" ->
                      /\ block.opcode = "operator_not"
                      /\ DOMAIN block.inputs = {Slot("OPERAND")}
                      /\ Lowered(blocks, block.inputs[Slot("OPERAND")], Binary("=", expr.left, expr.right), id)
                [] expr.type = "BinaryExpr" /\ expr.op = "+" ->
                      Operator("operator_add", "NUM1", expr.left, "NUM2", expr.right)
                [] expr.type = "BinaryExpr" /\ expr.op = "<" ->
                      Operator("operator_lt", "OPERAND1", expr.left, "OPERAND2", expr.right)
                [] expr.type = "BinaryExpr" /\ expr.op = ">" ->
                      Operator("operator_gt", "OPERAND1", expr.left, "OPERAND2", expr.right)
                [] expr.type = "BinaryExpr" /\ expr.op = "=" ->
                      Operator("operator_equals", "OPERAND1", expr.left, "OPERAND2", expr.right)
                [] OTHER -> FALSE

\* the one `say` of a lowering project and where it stands
SaidIn(p) ==
    IF p.targets[1].scripts[1].body[1].type = "SayStmt" THEN p.targets[1].scripts[1].body[1]
    ELSE p.targets[1].procedures[1].body[1]

RECURSIVE ReadsName(_, _)
\* expr reads the variable or parameter `name`
ReadsName(expr, name) ==
    CASE expr.type = "VarExpr" -> expr.name = name
      [] expr.type = "UnaryExpr" -> ReadsName(expr.operand, name)
      [] expr.type = "BinaryExpr" -> ReadsName(expr.left, name) \/ ReadsName(expr.right, name)
      [] OTHER -> FALSE

\* C20: `a <= b` lowers to operator_or(operator_lt(a, b), operator_equals(a, b)), `a >= b` to
\* operator_or(operator_gt(a, b), operator_equals(a, b)), `a != b` to operator_not over
\* operator_equals(a, b), and `-a` to operator_subtract with NUM1 = [1, [4, "0"]] and
\* NUM2 = a; every reporter among the operands is emitted once for each place the expansion
\* uses it, as a block of its own whose parent is the operator block using it, and nothing
\* else is emitted under the statement
C20_DesugaredOperators ==
    (project \in LoweringProjects /\ cg_pc \in {"returned", "raised"}) =>
        LET say == SaidIn(project)
            in_script == project.targets[1].scripts[1].body[1].type = "SayStmt"
        IN  /\ cg_error # NoError <=> (in_script /\ ReadsName(say.message, Name_n))
            /\ cg_pc = "returned" =>
                  LET blocks == targets_json[2].blocks
                      says   == BlocksWith(blocks, "looks_say")
                  IN  /\ Cardinality(says) = 1
                      /\ \A s \in says :
                            /\ DOMAIN blocks[s].inputs = {Slot("MESSAGE")}
                            /\ Lowered(blocks, blocks[s].inputs[Slot("MESSAGE")], say.message, s)
                            /\ Cardinality({i \in DOMAIN blocks : IsUnder(blocks, i, s)})
                                  = ReporterCount(say.message)

\* `say ((v + 1) <= -v)` in the script: one operator_or over an operator_lt and an
\* operator_equals, each over an operator_add and an operator_subtract of its own, so that
\* v is read by four data_variable blocks
C20_Witness ==
    /\ cg_pc = "returned" /\ cg_error = NoError
    /\ project \in LoweringProjects
    /\ project.targets[1].scripts[1].body[1].type = "SayStmt"
    /\ LET e == SaidIn(project).message IN
       /\ e.type = "BinaryExpr" /\ e.op = "<="
       /\ e.left.type = "BinaryExpr" /\ e.left.op = "+"
       /\ e.left.left.type = "VarExpr" /\ e.left.right.type = "NumberExpr"
       /\ e.right.type = "UnaryExpr" /\ e.right.op = "-" /\ e.right.operand.type = "VarExpr"
       /\ e.right.operand.name = Name_v
    /\ LET blocks == targets_json[2].blocks IN
       /\ Cardinality(BlocksWith(blocks, "operator_or")) = 1
       /\ Cardinality(BlocksWith(blocks, "operator_lt")) = 1
       /\ Cardinality(BlocksWith(blocks, "operator_equals")) = 1
       /\ Cardinality(BlocksWith(blocks, "operator_add")) = 2
       /\ Cardinality(BlocksWith(blocks, "operator_subtract")) = 2
       /\ Cardinality(BlocksWith(blocks, "data_variable")) = 4
       /\ \A i \in BlocksWith(blocks, "operator_subtract") :
             /\ blocks[i].inputs[Slot("NUM1")] = LiteralInput([kind |-> 4, text |-> <<"0">>])
             /\ blocks[blocks[i].inputs[Slot("NUM2")].ref].opcode = "data_variable"
             /\ blocks[blocks[i].inputs[Slot("NUM2")].ref].parent = i

-----------------------------------------------------------------------------
(* The lexer and the parser on their own: Parser.from_source as two steps,  *)
(* Lexer(source).tokenize() and Parser(tokens).parse_project(), and         *)
(* Parser._parse_expression_from_tokens on a token list.                    *)

MaxOperands == 4

\* what a token is made of, before it is placed
Kind(type, text) == [type |-> type, value |-> Str(text)]
OpKind(op)       == IF op \in {"and", "or"} THEN Kind("KEYWORD", op) ELSE Kind("OP", op)
Minus            == Kind("OP", "-")
Not              == Kind("KEYWORD", "not")
LP               == Kind("LPAREN", "(")
RP               == Kind("RPAREN", ")")
Atom_a           == Kind("IDENT", "a")
Atom_1           == Kind("NUMBER", "1")
Atom_s           == Kind("STRING", "s")

\* the tokens of one line, token k in column k
PlacedTokens(kinds) == [k \in 1..Len(kinds) |-> Token(kinds[k].type, kinds[k].value, 1, k)]

\* one operator of each level, and `-`, which is also a prefix
LevelOps == {"or", "and", "<", "+", "-", "*"}

\* expressions of up to MaxOperands operands: one to three with prefixes under every
\* binary operator, four and more under one operator of each level, and two to three with a
\* parenthesised operand on either side
ExprTokens ==
    LET atoms    == {Atom_a, Atom_1, Atom_s}
        prefixes == {<<>>, <<Minus>>, <<Not>>}
        stacked  == prefixes \cup {<<Minus, Minus>>, <<Not, Minus>>, <<Minus, Not>>}
        ops      == {OpKind(op) : op \in BinaryOps}
        few      == {OpKind(op) : op \in LevelOps}
        one      == {p \o <<x>> : p \in stacked, x \in atoms}
        two      == {p \o <<Atom_a, o>> \o q \o <<Atom_1>> : p \in stacked, q \in stacked, o \in ops}
        three    == IF MaxOperands < 3 THEN {}
                    ELSE {p \o <<Atom_a, o1>> \o q \o <<Atom_1, o2>> \o r \o <<Atom_a>>
                            : p \in prefixes, q \in prefixes, r \in prefixes, o1 \in ops, o2 \in ops}
        four     == IF MaxOperands < 4 THEN {}
                    ELSE {<<Atom_a, o1, Atom_1, o2, Atom_a, o3, Atom_1>> : o1 \in few, o2 \in few, o3 \in few}
        five     == IF MaxOperands < 5 THEN {}
                    ELSE {<<Atom_a, o1, Atom_1, o2, Atom_a, o3, Atom_1, o4, Atom_a>>
                            : o1 \in few, o2 \in few, o3 \in few, o4 \in few}
        grouped  == {<<LP, Atom_a, o1, Atom_1, RP, o2, Atom_a>> : o1 \in ops, o2 \in ops}
                    \cup {<<Atom_a, o1, LP, Atom_1, o2, Atom_a, RP>> : o1 \in ops, o2 \in ops}
                    \cup {<<p, LP, Atom_a, o1, Atom_1, RP, o2, Atom_a>> : p \in {Minus, Not}, o1 \in few, o2 \in few}
                    \cup {<<Atom_a, o1, p, LP, Atom_1, o2, Atom_a, RP>> : p \in {Minus, Not}, o1 \in few, o2 \in few}
                    \cup {<<LP, LP, Atom_a, RP, o1, Atom_1, RP>> : o1 \in ops}
    IN  {PlacedTokens(kinds) : kinds \in one \cup two \cup three \cup four \cup five \cup grouped}

\* a lexeme of each kind: keywords in lower, mixed and upper case, identifiers, numbers,
\* string literals (with a space, an escaped quote, an escaped n), the symbols, operators
LexPieces ==
    {Str("when"), Str("When"), Str("END"), Str("x"), Str("score"), Str("Foo"), Str("ok?"), Str("_a"),
     Str("12"), Str("1.5"), Str("\"hi\""), Str("\"a b\""), Str("\"q\\\"\""), Str("\"t\\n\""),
     Str("("), Str(")"), Str("["), Str("]"), Str(","),
     Str("+"), Str("-"), Str("*"), Str("/"), Str("%"), Str("<"), Str("<="), Str("="), Str("!="), Str(">")}

\* what stands between two lexemes: nothing, whitespace, a line end, a comment
LexGaps == {<<>>, Str(" "), Str("\t"), Str("\n"), Str("\r\n"), Str(" # c\n")}

\* two of the lexemes with a gap between them, and the ways the source can end
TwoLexemes(pieces) ==
    {p \o g \o q \o e : p \in pieces, g \in LexGaps, q \in pieces, e \in {<<>>, Str("\n"), Str(" # z")}}

RoundTripSources == TwoLexemes(LexPieces)

\* the sources without a string literal and without an upper-case letter in a keyword
PlainSources == TwoLexemes({p \in LexPieces : p[1] # "\"" /\ p \notin {Str("When"), Str("END")}})

\* a target source whose event scripts are all closed the same way: sprite A with one
\* script per body, `between` after the first script, the target's own `end`, then
\* `follower`; `closer` is what stands where each script's own `end` line would be
ScriptHeaders == <<Str("when flag clicked\n"), Str("when this sprite clicked\n")>>
ScriptBodies ==
    EventBodies \cup {Str("if <(1) = (1)> then\nsay (1)\nelse\nsay (2)\nend\n")}
ScriptBetweens == {<<>>, Str("var v\n"), Str("define greet\nsay (2)\nend\n"), Str("\n# next\n")}
TargetFollowers == {<<>>, Str("sprite B\nend\n"), Str("\nstage\nend\n")}

RECURSIVE ScriptsText(_, _, _, _)
ScriptsText(bodies, k, between, closer) ==
    IF k > Len(bodies) THEN <<>>
    ELSE ScriptHeaders[k] \o bodies[k] \o closer \o (IF k = 1 THEN between ELSE <<>>)
         \o ScriptsText(bodies, k + 1, between, closer)

TerminatedSource(c, closer) ==
    Str("sprite A\n") \o ScriptsText(c.bodies, 1, c.between, closer) \o Str("end\n") \o c.follower

TerminationCases ==
    {[bodies |-> b, between |-> x, follower |-> f]
       : b \in {<<b1>> : b1 \in ScriptBodies} \cup (ScriptBodies \X ScriptBodies),
         x \in ScriptBetweens, f \in TargetFollowers}

\* every script closed by its own `end`; the same source with those `end` tokens taken
\* out of their lines; and with their lines taken out as well
ExplicitEnds(c)     == TerminatedSource(c, Str("end\n"))
EndTokensRemoved(c) == TerminatedSource(c, Str("\n"))
EndLinesRemoved(c)  == TerminatedSource(c, <<>>)
ExplicitEndSources  == {ExplicitEnds(c) : c \in TerminationCases}

\* the sources handed to Parser.from_source
LexSources == {Str("sprite A\nend\n")} \cup RoundTripSources \cup ExplicitEndSources

InitParse ==
    /\ \/ /\ ps_source \in LexSources
          /\ ps_tokens = <<>>
          /\ ps_pc = "lex"
       \/ /\ ps_source = NoneStr
          /\ ps_tokens \in ExprTokens
          /\ ps_pc = "expr"
    /\ ps_result = <<>>
    /\ CgIdle /\ SemIdle /\ CfIdle /\ IrIdle /\ OneRun

\* Parser.from_source : tokens = Lexer(source).tokenize()
PsTokenize ==
    /\ ps_pc = "lex"
    /\ LET Lexed(lexed) ==
               IF lexed.err # NoError
               THEN /\ ps_pc' = "raised"
                    /\ ps_result' = [project |-> Project(<<>>), err |-> lexed.err]
                    /\ UNCHANGED ps_tokens
               ELSE /\ ps_pc' = "parse"
                    /\ ps_tokens' = lexed.tokens
                    /\ UNCHANGED ps_result
       IN  Lexed(Tokenize(ps_source))
    /\ UNCHANGED <<ps_source, cgVars, semVars, cfVars, irVars, first_run>>

\* Parser.from_source : return Parser(tokens).parse_project()
PsParse ==
    /\ ps_pc = "parse"
    /\ LET Parsed(parsed) ==
               /\ ps_result' = parsed
               /\ ps_pc' = IF parsed.err # NoError THEN "raised" ELSE "done"
       IN  Parsed(ParserCall("ParseProject", <<Parser(ps_tokens)>>))
    /\ UNCHANGED <<ps_source, ps_tokens, cgVars, semVars, cfVars, irVars, first_run>>

\* Parser._parse_expression_from_tokens(tokens)
PsParseExpression ==
    /\ ps_pc = "expr"
    /\ LET Parsed(parsed) ==
               /\ ps_result' = parsed
               /\ ps_pc' = IF parsed.err # NoError THEN "raised" ELSE "done"
       IN  Parsed(ParserCall("ParseExpressionFromTokens", <<ps_tokens>>))
    /\ UNCHANGED <<ps_source, ps_tokens, cgVars, semVars, cfVars, irVars, first_run>>

NextParse == PsTokenize \/ PsParse \/ PsParseExpression

SpecParse == InitParse /\ [][NextParse]_vars

-----------------------------------------------------------------------------
(* Operator precedence *)

\* the levels of the binary operators, lowest first
LevelOf(op) ==
    CASE op = "or" -> 1
      [] op = "and" -> 2
      [] op \in {"=", "==", "!=", "<", "<=", ">", ">="} -> 3
      [] op \in {"+", "-"} -> 4
      [] op \in {"*", "/", "%"} -> 5

\* token k of tokens[i..j] is a binary operator outside every parenthesis: it follows
\* an operand or a closing parenthesis, and as many parentheses close before it as open
BinaryAt(tokens, i, k) ==
    /\ k > i
    /\ tokens[k].type = "OP" \/ (tokens[k].type = "KEYWORD" /\ tokens[k].value \in {Str("and"), Str("or")})
    /\ tokens[k - 1].type \in {"IDENT", "NUMBER", "STRING", "RPAREN"}
    /\ Cardinality({m \in i..k : tokens[m].type = "LPAREN"}) = Cardinality({m \in i..k : tokens[m].type = "RPAREN"})

RECURSIVE Reference(_, _, _)
\* the reference parse of tokens[i..j]: the expression splits at the last of its
\* outermost binary operators of the lowest level; without one it is a prefix operator
\* over the rest, a parenthesised expression, or one operand
Reference(tokens, i, j) ==
    LET top    == {k \in i..j : BinaryAt(tokens, i, k)}
        lowest == CHOOSE l \in 1..5 :
                      /\ \E k \in top : LevelOf(Text(tokens[k].value)) = l
                      /\ \A k \in top : LevelOf(Text(tokens[k].value)) >= l
        split  == CHOOSE k \in top :
                      /\ LevelOf(Text(tokens[k].value)) = lowest
                      /\ \A m \in top : LevelOf(Text(tokens[m].value)) = lowest => m <= k
        first  == tokens[i]
    IN  IF top # {}
        THEN BinaryExpr(tokens[split].line, tokens[split].column, Text(tokens[split].value),
                        Reference(tokens, i, split - 1), Reference(tokens, split + 1, j))
        ELSE IF first.type = "OP" \/ first.type = "KEYWORD"
        THEN UnaryExpr(first.line, first.column, Text(first.value), Reference(tokens, i + 1, j))
        ELSE IF first.type = "LPAREN" THEN Reference(tokens, i + 1, j - 1)
        ELSE IF first.type = "NUMBER" THEN At(NumberExpr(Float(first.value)), first)
        ELSE IF first.type = "STRING" THEN At(StringExpr(first.value), first)
        ELSE At(VarExpr(first.value), first)

\* the run parsed an expression from tokens
ExpressionParsed == ps_source = NoneStr /\ ps_pc \in {"done", "raised"}

\* C21: the parser's result on the tokens of an expression is the reference parse with
\* the levels or(1) < and(2) < comparisons(3) < `+ -`(4) < `* / %`(5): a higher level
\* binds tighter, one level associates to the left, and a prefix `-` or `not` applies to
\* the primary or unary expression that follows it only
C21_PrecedenceClimbing ==
    ExpressionParsed =>
        /\ ps_result.err = NoError
        /\ ps_result.node = Reference(ps_tokens, 1, Len(ps_tokens))

\* `not a + 1 * a` was parsed: the sum of (not a) and the product
C21_Witness ==
    /\ ExpressionParsed /\ ps_pc = "done"
    /\ Len(ps_tokens) = 6
    /\ LET e == ps_result.node IN
       /\ e.type = "BinaryExpr" /\ e.op = "+" /\ e.column = 3
       /\ e.left.type = "UnaryExpr" /\ e.left.op = "not" /\ e.left.operand.type = "VarExpr"
       /\ e.right.type = "BinaryExpr" /\ e.right.op = "*"
       /\ e.right.left.type = "NumberExpr" /\ e.right.right.type = "VarExpr"

-----------------------------------------------------------------------------
(* Content-addressed assets *)

\* the costume entries of the emitted targets, each with its target's index
CostumeEntries ==
    UNION {{<<t, i>> : i \in 1..Len(targets_json[t].costumes)} : t \in 1..Len(targets_json)}
EntryAt(ti) == targets_json[ti[1]].costumes[ti[2]]

\* the file a declared costume of target t is read from
FileOf(t, i) == ResolveCostumePath(disk, PathOf(ordered[t].costumes[i].path))

\* C22: every costume entry e of the emitted targets has its md5ext as a key of the asset
\* map, md5ext is the MD5 of the bytes stored there with e.dataFormat as extension and
\* assetId is that digest; the map has one entry for each distinct pair of bytes and
\* extension and no other, so costumes of two targets read from one file share one entry;
\* and a step of build never changes or removes the bytes stored under a key
C22_ContentAddressedAssets ==
    /\ [][\A k \in DOMAIN assets : k \in DOMAIN assets' /\ assets'[k] = assets[k]]_vars
    /\ [](cg_error = NoError =>
            /\ \A ti \in CostumeEntries :
                  LET e == EntryAt(ti) IN
                  /\ e.md5ext \in DOMAIN assets
                  /\ e.md5ext = <<Md5(assets[e.md5ext]), e.dataFormat>>
                  /\ e.assetId = Md5(assets[e.md5ext])
            /\ DOMAIN assets = {EntryAt(ti).md5ext : ti \in CostumeEntries}
            /\ \A k1 \in DOMAIN assets, k2 \in DOMAIN assets :
                  (assets[k1] = assets[k2] /\ k1[2] = k2[2]) => k1 = k2
            /\ \A t1 \in 1..Len(targets_json), t2 \in 1..Len(targets_json) :
                  (/\ ordered[t1].costumes # <<>> /\ ordered[t2].costumes # <<>>
                   /\ FileOf(t1, 1) = FileOf(t2, 1))
                     => targets_json[t1].costumes[1].md5ext = targets_json[t2].costumes[1].md5ext)

\* sprites A and B both wear cat.svg, scaled: two costume entries and, beside the
\* synthesized stage's backdrop, one asset
C22_Witness ==
    /\ cg_pc = "returned" /\ cg_error = NoError /\ scale_svgs
    /\ project \in SharedCostumeProjects
    /\ Len(targets_json) = 3
    /\ ordered[2].costumes[1].path = Str("cat.svg") /\ ordered[3].costumes[1].path = Str("cat.svg")
    /\ targets_json[2].costumes[1].md5ext = targets_json[3].costumes[1].md5ext
    /\ targets_json[2].costumes[1].md5ext # targets_json[1].costumes[1].md5ext
    /\ Cardinality(DOMAIN assets) = 2
    /\ assets[targets_json[2].costumes[1].md5ext].layers # <<>>


-----------------------------------------------------------------------------
(* The same call made twice: Parser.from_source, _parse_expression_from_tokens *)
(* and generate_project_json are run to their end, what they produced is kept *)
(* in first_run, and the call is made again with the same arguments.  Each    *)
(* call of generate_project_json constructs its own _ProjectBuilder.          *)

\* a builder that starts from the ID counter the previous builder stopped at
NewProjectBuilderLeftCounter == Builder(id_counter, EmptyMap, <<>>, EmptyMap)

\* _ProjectBuilder.__init__ : the fields of a builder just constructed, whatever the
\* builder of an earlier call was left with
NewProjectBuilder == Builder(0, EmptyMap, <<>>, EmptyMap)

\* what a call of generate_project_json produced: the document, the asset map, every
\* ID it minted, the broadcast IDs, and the exception when it raised
CodegenOutcome ==
    [call |-> "generate_project_json", project_json |-> [targets |-> targets_json], assets |-> assets,
     minted |-> minted, broadcast_ids |-> broadcast_ids, finished |-> cg_pc, error |-> cg_error]

\* what a call of the parser produced: the AST, or the exception
ParseOutcome == [call |-> "parse", finished |-> ps_pc, result |-> ps_result]

\* generate_project_json(project, source_dir, scale_svgs) is called a second time
CgAgain ==
    /\ cg_pc \in {"returned", "raised"}
    /\ first_run = <<>>
    /\ first_run' = CodegenOutcome
    /\ LET b == NewProjectBuilder
       IN  /\ id_counter' = b.ctr
           /\ broadcast_ids' = b.bids
           /\ minted' = b.minted
           /\ assets' = b.assets
    /\ ordered' = <<>>
    /\ targets_json' = <<>>
    /\ sprite_layer' = 1
    /\ cg_error' = NoError
    /\ cg_pc' = "collect"
    /\ UNCHANGED <<project, disk, scale_svgs, semVars, cfVars, irVars, psVars>>

\* Parser.from_source(source), or _parse_expression_from_tokens(tokens), is called a second time
PsAgain ==
    /\ ps_pc \in {"done", "raised"}
    /\ first_run = <<>>
    /\ first_run' = ParseOutcome
    /\ ps_pc' = IF ps_source = NoneStr THEN "expr" ELSE "lex"
    /\ ps_tokens' = IF ps_source = NoneStr THEN ps_tokens ELSE <<>>
    /\ ps_result' = <<>>
    /\ UNCHANGED <<ps_source, cgVars, semVars, cfVars, irVars>>

InitTwice == InitCodegen \/ InitParse

NextTwice == NextCodegen \/ CgAgain \/ NextParse \/ PsAgain

SpecTwice == InitTwice /\ [][NextTwice]_vars

\* the second call has ended
SecondEnded ==
    /\ first_run # <<>>
    /\ \/ first_run.call = "generate_project_json" /\ cg_pc \in {"returned", "raised"}
       \/ first_run.call = "parse" /\ ps_pc \in {"done", "raised"}

-----------------------------------------------------------------------------
(* SVG normalization applied to its own output *)

\* the bytes _prepare_svg returns for `data` with scale_svgs on
Normalized(data) == PrepareSvg(NewProjectBuilder, data, TRUE).data

\* the SVG files on disk whose viewBox is already 0 0 64 64
SquareSvgFiles ==
    {loc \in DOMAIN disk : /\ disk[loc].fmt = "svg"
                           /\ disk[loc].valid
                           /\ disk[loc].viewBox = <<0, 0, DEFAULT_SVG_TARGET_SIZE, DEFAULT_SVG_TARGET_SIZE>>}

\* C24 as stated: SVG normalization is idempotent on an SVG whose viewBox is already
\* 0 0 64 64: for every asset that build() stored as the normalization of such a file,
\* normalizing the stored bytes again returns the same bytes: the same element tree, the
\* same number of wrapper <g> elements, the same MD5.
C24_NormalizationIdempotent ==
    scale_svgs =>
        \A k \in DOMAIN assets : \A loc \in SquareSvgFiles :
            assets[k] = Normalized(disk[loc]) =>
                /\ Normalized(assets[k]) = assets[k]
                /\ Len(Normalized(assets[k]).layers) = Len(assets[k].layers)
                /\ Md5(Normalized(assets[k])) = k[1]


-----------------------------------------------------------------------------
(* The lexemes of a source against its text *)

RECURSIVE Lexemes(_)
\* the concatenation of the values of the tokens other than NEWLINE and EOF
Lexemes(tokens) ==
    IF tokens = <<>> THEN <<>>
    ELSE (IF Head(tokens).type \in {"NEWLINE", "EOF"} THEN <<>> ELSE Head(tokens).value)
         \o Lexemes(Tail(tokens))

RECURSIVE WithoutComments(_, _)
\* the text with every comment removed: from a `#` up to the line end, which stays;
\* in_comment tells whether the first character is inside a comment
WithoutComments(s, in_comment) ==
    IF s = <<>> THEN <<>>
    ELSE IF Head(s) = "\n" THEN <<"\n">> \o WithoutComments(Tail(s), FALSE)
    ELSE IF in_comment \/ Head(s) = "#" THEN WithoutComments(Tail(s), TRUE)
    ELSE <<Head(s)>> \o WithoutComments(Tail(s), FALSE)

\* the text with comments and whitespace removed
Squeezed(s) == SelectSeq(WithoutComments(s, FALSE), LAMBDA c : c \notin {" ", "\t", "\r", "\n"})

\* the position in the text of the character at (line, column)
OffsetOf(s, line, column) ==
    LET ends == {i \in 1..Len(s) : s[i] = "\n"}
        before == IF line = 1 THEN 0
                  ELSE CHOOSE i \in ends : Cardinality({j \in ends : j <= i}) = line - 1
    IN  before + column

RECURSIVE Decoded(_, _)
\* the content of the string literal whose first character after the quote is s[i]:
\* up to the closing quote, a backslash and the character after it standing for one character
Decoded(s, i) ==
    IF i > Len(s) \/ s[i] = "\"" THEN <<>>
    ELSE IF s[i] = "\\"
    THEN <<CASE s[i + 1] = "n" -> "\n" [] s[i + 1] = "r" -> "\r" [] s[i + 1] = "t" -> "\t" [] OTHER -> s[i + 1]>>
         \o Decoded(s, i + 2)
    ELSE <<s[i]>> \o Decoded(s, i + 1)

\* the lexer returned the tokens of a source text
Lexed == ps_source # NoneStr /\ ps_pc # "lex" /\ ps_tokens # <<>>

\* the text of the source that token t was read from, as long as the token's value
Slice(t) ==
    LET o == OffsetOf(ps_source, t.line, t.column)
    IN  SubSeq(ps_source, o, o + Len(t.value) - 1)

\* C25 as stated: for every source made of keywords, identifiers, numbers, string literals
\* and symbols, the concatenated lexemes of the tokens other than NEWLINE and EOF equal the
\* source with comments and whitespace removed, upper-case keywords and string literals
\* included.
C25_LexRoundTripAsStated ==
    (Lexed /\ ps_source \in RoundTripSources) => Lexemes(ps_tokens) = Squeezed(ps_source)

\* C25: for every source made of keywords in lower case, identifiers, numbers and symbols
\* the concatenated lexemes of the tokens other than NEWLINE and EOF equal the source with
\* comments and whitespace removed; in every source the lexeme of a keyword is the lower-cased
\* text it was read from, the lexeme of a string literal is its content without the quotes
\* and with the escapes decoded, and every other lexeme is the text it was read from.
C25_LexRoundTrip ==
    Lexed =>
        /\ ps_source \in PlainSources => Lexemes(ps_tokens) = Squeezed(ps_source)
        /\ \A k \in 1..Len(ps_tokens) :
               LET t == ps_tokens[k]
               IN  CASE t.type \in {"NEWLINE", "EOF"} -> TRUE
                     [] t.type = "KEYWORD" -> t.value = Lower(Slice(t))
                     [] t.type = "STRING"  ->
                            LET o == OffsetOf(ps_source, t.line, t.column)
                            IN  ps_source[o] = "\"" /\ t.value = Decoded(ps_source, o + 1)
                     [] OTHER -> t.value = Slice(t)

\* the lexer returned the tokens of `score # c`, line end, `when`: an identifier, a comment
\* and a keyword on the second line
C25_Witness ==
    /\ Lexed
    /\ ps_source = Str("score # c\nwhen")
    /\ ps_source \in PlainSources
    /\ Lexemes(ps_tokens) = Str("scorewhen")
    /\ Len(ps_tokens) = 4


-----------------------------------------------------------------------------
(* The minimal project S1 *)

\* compile_file wrote the archive of the minimal project
S1Written == Compiled(S1Source) /\ cf_pc = "done"

\* the targets of the project.json written
WrittenTargets == cf_output.project_json.targets

\* the opcodes of the blocks of a target, each with the number of blocks that have it
OpcodeCount(target_json, opcode) ==
    Cardinality({id \in DOMAIN target_json.blocks : target_json.blocks[id].opcode = opcode})

\* C26 as stated: in the project.json of S1 the Cat target's blocks map contains exactly
\* five blocks.
C26_CatHasFiveBlocks ==
    S1Written => /\ Len(WrittenTargets) = 2
                 /\ WrittenTargets[2].name = Str("Cat")
                 /\ Cardinality(DOMAIN WrittenTargets[2].blocks) = 5

\* C26: in the project.json of S1 the Cat target's blocks map contains exactly four blocks:
\* the event_whenbroadcastreceived hat, data_setvariableto, control_repeat and
\* data_changevariableby; the literals are inputs, not blocks, and the
\* event_broadcast_menu shadow is one of the three blocks of the stage.
C26_CatHasFourBlocks ==
    S1Written =>
        /\ Len(WrittenTargets) = 2
        /\ WrittenTargets[1].isStage /\ WrittenTargets[2].name = Str("Cat")
        /\ Cardinality(DOMAIN WrittenTargets[2].blocks) = 4
        /\ \A op \in {"event_whenbroadcastreceived", "data_setvariableto", "control_repeat",
                      "data_changevariableby"} : OpcodeCount(WrittenTargets[2], op) = 1
        /\ Cardinality(DOMAIN WrittenTargets[1].blocks) = 3
        /\ \A op \in {"event_whenflagclicked", "event_broadcast", "event_broadcast_menu"} :
               OpcodeCount(WrittenTargets[1], op) = 1

\* the archive of S1 is written, with the variable score in Cat and the broadcast in the stage
C26_Witness ==
    /\ S1Written
    /\ cf_error = NoError
    /\ Cardinality(DOMAIN WrittenTargets[2].variables) = 1
    /\ Cardinality(DOMAIN WrittenTargets[1].broadcasts) = 1
    /\ Cardinality(DOMAIN WrittenTargets[2].blocks) = 4


-----------------------------------------------------------------------------
(* The names an accepted project uses *)

\* the CodegenErrors of a failed lookup: _lookup_var_id, _lookup_list_id, _emit_call_stmt
LookupFailures == {"variable not declared", "list not declared", "unknown procedure"}

\* C27: for every project accepted by analyze, generate_project_json never raises the
\* CodegenError of an undeclared variable, an undeclared list or an unknown procedure, at
\* any step of build(); and generate_project_json is only called on accepted projects.
C27_AcceptedProjectsResolveNames ==
    /\ cg_pc # "idle" => sem_pc = "accepted" /\ project = sem_project
    /\ sem_pc = "accepted" => (cg_error = NoError \/ cg_error.what \notin LookupFailures)
    /\ cf_error = NoError \/ cf_error.kind # "CodegenError" \/ cf_error.what \notin LookupFailures

\* build() returned for the accepted project whose procedure reads the parameter as N in
\* a repeat (n) and whose script calls INC (v): a procedure, a parameter and a variable
\* looked up in another case than declared
C27_Witness ==
    /\ Compiled(LookupSource(Str("repeat (n)\nsay (N)\nend\n"), Str("INC (v)\n")))
    /\ sem_pc = "accepted"
    /\ cg_pc = "returned"
    /\ cf_pc = "done"
    /\ \E id \in DOMAIN targets_json[2].blocks : targets_json[2].blocks[id].opcode = "procedures_call"
    /\ \E id \in DOMAIN targets_json[2].blocks : targets_json[2].blocks[id].opcode = "data_variable"
    /\ Cardinality({id \in DOMAIN targets_json[2].blocks :
                       targets_json[2].blocks[id].opcode = "argument_reporter_string_number"}) >= 2


-----------------------------------------------------------------------------
(* The DFS stack and the cache of one resolve_project_from_path call *)

\* the paths of the active _resolve_file calls, outermost first
CallPaths(frames) == [i \in 1..Len(frames) |-> frames[i].path]

\* the active calls that are inside their `try`: every call but the innermost has made the
\* recursive call from inside its loop
InsideTry(frames) == SelectSeq(frames, LAMBDA f : f.pc = "loop")

\* file q is the import that the call `f` is processing
ProcessingImport(f, q) ==
    /\ f.idx < Len(f.imports)
    /\ q = ResolvePath(f.imports[f.idx + 1].relative_path)

\* what holds of the stack and the cache in every state of a call
StackInvariant ==
    ir_pc = "run" =>
        /\ \A i \in 1..Len(ir_stack) : \A j \in 1..Len(ir_stack) : i # j => ir_stack[i] # ir_stack[j]
        /\ ir_stack = CallPaths(InsideTry(ir_frames))
        /\ \A i \in 1..(Len(ir_frames) - 1) : ir_frames[i].pc = "loop" /\ ir_frames[i].waiting
        /\ ir_frames # <<>> => ir_frames[1].path = ResolvePath(ir_entry)
        /\ \A i \in 1..(Len(ir_frames) - 1) : ProcessingImport(ir_frames[i], ir_frames[i + 1].path)
        /\ \A i \in 1..Len(ir_stack) : ir_stack[i] \notin DOMAIN ir_cache
        /\ \A i \in 1..Len(ir_reads) : \A j \in 1..Len(ir_reads) : i # j => ir_reads[i] # ir_reads[j]

\* what holds of every step of a call
StackStep ==
    /\ \* a file enters the cache when all its imports are resolved and its path is popped
       \A path \in DOMAIN ir_cache' \ DOMAIN ir_cache :
           /\ ir_frames # <<>> /\ path = Top.path
           /\ Top.idx = Len(Top.imports)
           /\ \A i \in 1..Len(Top.imports) : ResolvePath(Top.imports[i].relative_path) \in DOMAIN ir_cache
           /\ \A i \in 1..Len(ir_stack') : ir_stack'[i] # path
    /\ \* the cache only grows
       \A path \in DOMAIN ir_cache : ir_pc = "run" => path \in DOMAIN ir_cache' /\ ir_cache'[path] = ir_cache[path]
    /\ \* a _resolve_file call returns: the stack is what it was when the call was made, the
       \* paths of its callers
       (ir_pc = "run" /\ ir_pc' = "run" /\ Len(ir_frames') < Len(ir_frames)) =>
           /\ ir_frames' = Pop(ir_frames)
           /\ ir_stack' = CallPaths(ir_frames')
    /\ \* an exception leaves every active call: the stack is what it was at the first call
       (ir_pc = "run" /\ ir_pc' = "raised") => ir_stack' = <<>>
    /\ \* a file is read when it is neither cached nor on the stack
       Len(ir_reads') > Len(ir_reads) =>
           /\ ir_reads' = Append(ir_reads, Top.path)
           /\ Top.path \notin DOMAIN ir_cache
           /\ \A i \in 1..Len(ir_stack) : ir_stack[i] # Top.path

\* C28: throughout one resolve_project_from_path call the stack holds pairwise distinct
\* paths and is the import chain from the entry file to the file whose imports are being
\* processed; no path is on the stack and in the cache at once, and a file enters the cache
\* only when all its imports are resolved and it is popped; when _resolve_file returns or
\* raises the stack is what it was at the call; each file is read at most once.
C28_StackAndCacheDiscipline == []StackInvariant /\ [][StackStep]_vars

\* a imports b and then c, and c imports b: c is being resolved under a, b is cached, the
\* call for b made by c is about to return the cached value, and each file was read once
C28_Witness ==
    /\ ir_pc = "run"
    /\ ir_stack = <<File_a, File_c>>
    /\ DOMAIN ir_cache = {File_b}
    /\ Len(ir_frames) = 3
    /\ ir_frames[3].path = File_b
    /\ ir_reads = <<File_a, File_b, File_c>>


-----------------------------------------------------------------------------
(* A file imported more than once *)

\* the import lines of the files read that name file q, as <<position in ir_reads, index>>
ImportsNaming(q) ==
    UNION {{<<k, i>> : i \in {n \in 1..Len(ExtractImports(fs[ir_reads[k]]).imports) :
                                ResolvePath(ExtractImports(fs[ir_reads[k]]).imports[n].relative_path) = q}}
             : k \in 1..Len(ir_reads)}

\* the positions in `targets` of the sprites that file q defines
SpritesOf(q, targets) ==
    {i \in 1..Len(targets) : /\ ~targets[i].is_stage
                             /\ \E j \in 1..Len(ir_cache[q].local_targets) :
                                   targets[i].name = ir_cache[q].local_targets[j].name}

\* every _resolve_file call has returned: the entry file is cached
AllResolved ==
    /\ ir_pc \in {"done", "raised"}
    /\ ir_frames = <<>>
    /\ ResolvePath(ir_entry) \in DOMAIN ir_cache

-----------------------------------------------------------------------------
(* Explicit and implicit termination of event scripts *)

\* the targets of a project with every node moved to where one fixed layout puts it:
\* what is left to compare is the names, the declarations, the procedures and the
\* scripts with their bodies
Unplaced(parsed) ==
    [k \in 1..Len(parsed.targets) |->
        LET t == parsed.targets[k]
        IN  TargetAt(t.name, t.is_stage, t.variables, t.lists, t.costumes,
                     t.procedures \o t.scripts, 0, FALSE).target]

\* the cases whose explicitly terminated source is the one that was parsed
ParsedCases ==
    IF ps_pc \in {"done", "raised"} /\ ps_source \in ExplicitEndSources
    THEN {c \in TerminationCases : ExplicitEnds(c) = ps_source} ELSE {}

\* C30: a source whose event scripts are each closed by their own `end`, in a target
\* whose closing `end` is followed by `sprite`, `stage` or the end of the file, parses,
\* and the source without those `end` tokens parses to the same project: to the very
\* same nodes when only the tokens are removed, and to the same names, declarations,
\* procedures, scripts and bodies when their lines are removed too
C30_ExplicitAndImplicitEndsAgree ==
    \A c \in ParsedCases :
        /\ ps_pc = "done"
        /\ FromSource(EndTokensRemoved(c)) = ps_result
        /\ LET implicit == FromSource(EndLinesRemoved(c))
           IN  /\ implicit.err = NoError
               /\ Unplaced(implicit.project) = Unplaced(ps_result.project)

\* two scripts, the first with a nested block, a procedure between them and a second
\* target after the first: both were parsed, and the implicit source puts them on
\* other lines
C30_Witness ==
    LET c == [bodies |-> <<Str("repeat (2)\nsay (1)\nend\n"), Str("say (1)\n")>>,
              between |-> Str("define greet\nsay (2)\nend\n"), follower |-> Str("sprite B\nend\n")]
    IN  /\ ps_pc = "done"
        /\ ps_source = ExplicitEnds(c)
        /\ Len(ps_result.project.targets) = 2
        /\ Len(ps_result.project.targets[1].scripts) = 2
        /\ Len(ps_result.project.targets[1].procedures) = 1
        /\ ps_result.project.targets[1].scripts[1].body[1].type = "RepeatStmt"
        /\ FromSource(EndLinesRemoved(c)).project # ps_result.project

=============================================================================
